---- MODULE Spec2Model ----
(***************************************************************************)
(* A model of i-SAS_Base's storage layer:                                  *)
(*   - ParallelExporter.run (isas_base/data/parallel_exporter.py), the     *)
(*     background thread that drains the export queue;                     *)
(*   - DataStorageHandler._save_postgres_data in 'sync' mode               *)
(*     (isas_base/data/data_storage_handler.py), the staging-table upsert; *)
(*   - DataStorageHandler's four entry points (_save_table_data,           *)
(*     _load_table_data, _save_time_series_data, _load_time_series_data)   *)
(*     with their relational, file, time-series and streaming adapters,    *)
(*     and the child-record export of DataManager that calls them.         *)
(***************************************************************************)
EXTENDS Integers, Sequences, FiniteSets, TLC

\* ------------------------------------------------------------------ bounds
\* Items the producers enqueue in one run.
MaxItems == 3
\* Producer threads that call queue.put.
NumProducers == 2

Producers == 1..NumProducers

\* Invocations of _save_postgres_data(mode='sync') with a dataframe of the
\* caller's choice in one run, and invocations that repeat the dataframe of
\* the invocation before (a second call, a retry after a failure).
MaxSyncs == 2
MaxRepeats == 1

VARIABLES
    \* ---- ParallelExporter and its queue
    queue,        \* queue.Queue: FIFO of <<producer, n>> items
    exit,         \* ParallelExporter.exit, the stop flag
    pc,           \* position of the worker thread in run()
    inflight,     \* the item returned by queue.get, <<>> when none
    active,       \* items whose export_dynamic_data call has started and not ended
    enqueued,     \* history: every item ever put, in put order
    forwarded,    \* history: every item passed to export_dynamic_data, in call order
    completed,    \* history: items whose export call ended (returned or raised)
    failed,       \* history: items whose export call raised
    afterStop,    \* history: items put after exit was raised
    late,         \* history: the items of afterStop put while the thread was alive
    stopDuring,   \* history: the items whose export was running when exit was raised
    idled,        \* history: a poll of the empty queue has timed out
    \* ---- the relational backend and _save_postgres_data(mode='sync')
    target,       \* rows of the target table "<table_name>"
    staging,      \* the staging tables that exist: name -> sequence of rows
    spc,          \* position of the caller in _save_postgres_data
    sdf,          \* df of the running (or last) invocation, NoDf before the first
    nsync,        \* invocations started with a dataframe of the caller's choice
    nrep,         \* invocations started that repeat the dataframe before
    before,       \* history: target when the running (or last) invocation began
    lastRes,      \* history: how the last invocation ended, <<result, step>>
    prevDf,       \* history: df of the invocation before the last
    prevRes,      \* history: how that invocation ended
    prevAfter,    \* history: target when that invocation ended
    \* ---- the backends behind DataStorageHandler's entry points
    store,        \* the relational table, the files, the measurement, the directories
    call,         \* the last call of an entry point and its arguments
    out,          \* how that call ended: "ok" or the exception that left it
    res,          \* what that call returned (loads)
    written,      \* history: the rows the time-series file saves have written
    \* ---- the streaming adapter with a saving and a loading thread
    wpc,          \* position of the saving thread in _save_time_series_data_streaming
    wdf,          \* the dataframe it dumps, index converted
    wpos,         \* blocks of it written
    nsave,        \* saves started
    rpc,          \* position of the loading thread in _load_time_series_data_streaming
    rbuf,         \* blocks pickle.load has read since the file was opened
    nload,        \* loads started
    rargs,        \* the bounds passed to the running (or last) load
    rres,         \* what the last load returned
    rout,         \* how the last load ended
    quiet,        \* history: no save ran while the running (or last) load ran
    lastSaved,    \* history: the dataframe of the last save that returned
    begun,        \* history: the dataframes of the saves started
    \* ---- table files with their columns, under the schema declarations
    tfile,        \* the table files: table name -> file
    tcall,        \* the last call of _save_table_data or _load_table_data
    tout,         \* how it ended: "ok", "frame", "None" or the exception
    tret,         \* the dataframe it handed to the adapter (save) or returned (load)
    tsaved,       \* history: table name -> the dataframe last written to its file
    \* ---- the time-series file DataManager exports to and imports from
    ifile,        \* the file of the data name
    icall,        \* the last call and its arguments
    iout,         \* how it ended: "ok", "data", "empty" or the exception
    iret,         \* the TimeSeriesData the import returned
    isaved,       \* history: the exports since the store was empty: the first, how many
    \* ---- a StaticData or DynamicData aggregate and its update
    agg,          \* the aggregate: its class and its dicts
    uother,       \* the aggregate passed to the last update
    uprev,        \* history: the aggregate before the last update
    uop,          \* the last operation on the aggregate: "new" or "update"
    \* ---- one time-series file two threads append to
    afile,        \* the file
    apc,          \* thread -> its position in _save_time_series_data_to_file
    adf,          \* thread -> the dataframe it saves
    ahead,        \* thread -> its local variable header
    apend,        \* thread -> the lines to_csv has yet to write
    \* ---- export_static_data
    xcall,        \* the StaticData of the last call: group -> what it holds
    xlog,         \* the tables the last call saved, in order
    xret          \* how the last call ended: "None" or "raise"

hist == <<afterStop, late, stopDuring, idled>>

workerVars == <<queue, exit, pc, inflight, active, enqueued, forwarded,
                completed, failed, hist>>

syncVars == <<target, staging, spc, sdf, nsync, nrep, before, lastRes,
              prevDf, prevRes, prevAfter>>

storeVars == <<store, call, out, res, written>>

streamVars == <<wpc, wdf, wpos, nsave, rpc, rbuf, nload, rargs, rres, rout,
                quiet, lastSaved, begun>>

frameVars == <<tfile, tcall, tout, tret, tsaved>>

importVars == <<ifile, icall, iout, iret, isaved>>

updateVars == <<agg, uother, uprev, uop>>

appendVars == <<afile, apc, adf, ahead, apend>>

staticVars == <<xcall, xlog, xret>>

managerVars == <<frameVars, importVars, updateVars, appendVars, staticVars>>

storageVars == <<storeVars, streamVars, managerVars>>

vars == <<workerVars, syncVars, storageVars>>

\* ------------------------------------------------------------- helpers
Range(s) == {s[i] : i \in 1..Len(s)}

IsPrefix(s, t) == Len(s) <= Len(t) /\ \A i \in 1..Len(s) : s[i] = t[i]

NoItem == <<>>

\* The thread object is alive while run() has neither returned nor raised.
Alive == pc \notin {"done", "crashed"}

\* ---------------------------------------------------- queue.Queue
\* (Variant for sensitivity runs: the newest item is handed out.)
QueueGetLifo(q) == q[Len(q)]

\* queue.get: the item handed out (FIFO: the oldest one).
QueueGet(q) == Head(q)

\* (Variant: the item handed out stays in the queue.)
QueueRestWithItem(q) == q

\* The queue after queue.get removed the item it handed out.
QueueRest(q) == Tail(q)

\* (Variant: queue.get() without a timeout never raises queue.Empty.)
PollNeverTimesOut(q) == FALSE

\* queue.get(timeout=1) raises queue.Empty when the queue stayed empty for
\* the whole poll interval.
PollTimesOut(q) == q = <<>>

\* ------------------------------------------------ ParallelExporter
WorkerInit ==
    /\ queue = <<>>
    /\ exit = FALSE
    /\ pc = "get"
    /\ inflight = NoItem
    /\ active = {}
    /\ enqueued = <<>>
    /\ forwarded = <<>>
    /\ completed = <<>>
    /\ failed = {}
    /\ afterStop = {}
    /\ late = {}
    /\ stopDuring = {}
    /\ idled = FALSE

\* A producer thread: export_queue.put((data_name, dynamic_data)).  The queue
\* is unbounded, so put never blocks; it is also legal after the thread ended.
Enqueue(p) ==
    /\ Len(enqueued) < MaxItems
    /\ LET item == <<p, Len(enqueued) + 1>> IN
        /\ queue' = Append(queue, item)
        /\ enqueued' = Append(enqueued, item)
        /\ afterStop' = IF exit THEN afterStop \cup {item} ELSE afterStop
        /\ late' = IF exit /\ Alive THEN late \cup {item} ELSE late
    /\ UNCHANGED <<syncVars, storageVars>>
    /\ UNCHANGED <<exit, pc, inflight, active, forwarded, completed, failed,
                   stopDuring, idled>>

\* The owner: parallel_exporter.exit = True.
RequestStop ==
    /\ ~exit
    /\ exit' = TRUE
    /\ stopDuring' = active
    /\ UNCHANGED <<syncVars, storageVars>>
    /\ UNCHANGED <<queue, pc, inflight, active, enqueued, forwarded,
                   completed, failed, afterStop, late, idled>>

\* run(), line 41: queue.get(timeout=1) returns an item.
GetItem ==
    /\ pc = "get"
    /\ queue # <<>>
    /\ inflight' = QueueGet(queue)
    /\ queue' = QueueRest(queue)
    /\ pc' = "export"
    /\ UNCHANGED <<syncVars, storageVars>>
    /\ UNCHANGED <<exit, active, enqueued, forwarded, completed, failed, hist>>

\* run(), lines 41, 50-51: the poll timed out, queue.Empty is caught.
GetTimeout ==
    /\ pc = "get"
    /\ PollTimesOut(queue)
    /\ pc' = "check"
    /\ idled' = TRUE
    /\ UNCHANGED <<syncVars, storageVars>>
    /\ UNCHANGED <<queue, exit, inflight, active, enqueued, forwarded,
                   completed, failed, afterStop, late, stopDuring>>

\* run(), lines 43-48: export_dynamic_data is called with the item.
ExportCall ==
    /\ pc = "export"
    /\ forwarded' = Append(forwarded, inflight)
    /\ active' = active \cup {inflight}
    /\ pc' = "exporting"
    /\ UNCHANGED <<syncVars, storageVars>>
    /\ UNCHANGED <<queue, exit, inflight, enqueued, completed, failed, hist>>

\* run(), line 49: the call returned.
ExportReturn ==
    /\ pc = "exporting"
    /\ active' = active \ {inflight}
    /\ completed' = Append(completed, inflight)
    /\ inflight' = NoItem
    /\ pc' = "check"
    /\ UNCHANGED <<syncVars, storageVars>>
    /\ UNCHANGED <<queue, exit, enqueued, forwarded, failed, hist>>

\* (Variant: a handler that logs the error and goes on to the stop check.)
AfterExportErrorContinue == "check"

\* Where run() goes when export_dynamic_data raises.  The try statement of
\* lines 40-51 has a single handler, `except queue.Empty`, so any other
\* exception leaves run() and the thread ends.
AfterExportError == "crashed"

\* run(), lines 43-48: the call raised (a backend fault, a bad payload).
ExportRaise ==
    /\ pc = "exporting"
    /\ active' = active \ {inflight}
    /\ completed' = Append(completed, inflight)
    /\ failed' = failed \cup {inflight}
    /\ inflight' = NoItem
    /\ pc' = AfterExportError
    /\ UNCHANGED <<syncVars, storageVars>>
    /\ UNCHANGED <<queue, exit, enqueued, forwarded, hist>>

\* run(), line 52, left operand of `and`: self.exit is read.
\* When it is False the right operand is not evaluated.
CheckExit ==
    /\ pc = "check"
    /\ pc' = IF exit THEN "check_empty" ELSE "get"
    /\ UNCHANGED <<syncVars, storageVars>>
    /\ UNCHANGED <<queue, exit, inflight, active, enqueued, forwarded,
                   completed, failed, hist>>

\* (Variant: the loop breaks on the flag alone.)
BreakIgnoringQueue(q) == TRUE

\* What the right operand of line 52 decides from the queue it observes.
BreakOnEmpty(q) == q = <<>>

\* run(), lines 52-54, right operand: self.queue.empty(), then break.
CheckEmpty ==
    /\ pc = "check_empty"
    /\ pc' = IF BreakOnEmpty(queue) THEN "done" ELSE "get"
    /\ UNCHANGED <<syncVars, storageVars>>
    /\ UNCHANGED <<queue, exit, inflight, active, enqueued, forwarded,
                   completed, failed, hist>>

Producer == \E p \in Producers : Enqueue(p)

Worker ==
    \/ GetItem
    \/ GetTimeout
    \/ ExportCall
    \/ ExportReturn
    \/ ExportRaise
    \/ CheckExit
    \/ CheckEmpty

\* ===================================================================
\* DataStorageHandler._save_postgres_data, mode 'sync'
\* ===================================================================
\* The primary keys and the cell values of the rows: two of each tell a row a
\* dataframe names from one it does not, and an old value from a new one.
Keys == {1, 2}
Vals == {1, 2}

\* SQL NULL.
Null == 0

\* The non-key columns of the target table; "k" is its primary key
\* (index_name).
NonKeyCols == {"a", "b"}

\* A row of the target or of a staging table.
Row(key, a, b) == [k |-> key, a |-> a, b |-> b]

\* The row a dataframe with the non-key columns `cols` holds for `key` at
\* version v: column a holds v, column b holds -v, a column it lacks is NULL
\* once the row is in a staging table (created with every target column).
DfRow(cols, key, v) ==
    Row(key, IF "a" \in cols THEN v ELSE Null, IF "b" \in cols THEN -v ELSE Null)

\* The column sets of the dataframes callers pass: the key alone
\* (_export_service_metadata), or the key with some or all non-key columns.
ColSets == {{}, {"a"}, {"a", "b"}}

\* Non-empty dataframes (an empty one returns at _save_table_data, line 125)
\* with unique keys, rows listed in key order.
RECURSIVE RowSeq(_, _, _)
RowSeq(cols, ks, ver) ==
    IF ks = {} THEN <<>>
    ELSE LET key == CHOOSE x \in ks : \A y \in ks : x <= y
         IN <<DfRow(cols, key, ver[key])>> \o RowSeq(cols, ks \ {key}, ver)

Dataframes ==
    {[cols |-> c, rows |-> RowSeq(c, ks, ver)] :
        c \in ColSets \ {{}}, ks \in (SUBSET Keys) \ {{}}, ver \in [Keys -> Vals]}
    \cup
    {[cols |-> {}, rows |-> RowSeq({}, ks, [key \in Keys |-> Null])] :
        ks \in (SUBSET Keys) \ {{}}}

NoDf == [cols |-> {}, rows |-> <<>>]

DfKeys(df) == {df.rows[i].k : i \in 1..Len(df.rows)}

\* Lines 164-165: hashlib.md5(str(df).encode()).hexdigest() appended to the
\* table name.  str(df) prints the header and every row of a small frame, and
\* md5 is taken to be collision-free on these texts, so the name is determined
\* by, and determines, the columns and rows printed.
StagingName(df) == <<"table_name", df.cols, df.rows>>

\* CREATE TABLE "<tmp>" AS SELECT * FROM "<table_name>" WHERE false (lines
\* 166-168): PostgreSQL refuses to create a relation that already exists.
CreateRefused(st, name) == name \in DOMAIN st

CreateTable(st, name) == [n \in DOMAIN st \cup {name} |-> IF n = name THEN <<>> ELSE st[n]]

\* df.to_sql(tmp, if_exists='append') (line 170).
InsertInto(st, name, rows) == [st EXCEPT ![name] = @ \o rows]

\* (Variant: the staging table is not dropped.)
DropTableKept(st, name) == st

\* DROP TABLE "<tmp>" (lines 187-189).
DropTable(st, name) == [n \in DOMAIN st \ {name} |-> st[n]]

\* (Variant: only the first listed column is updated.)
UpdateFirstColumnOnly(t, r, cols) ==
    Row(t.k, IF "a" \in cols THEN r.a ELSE t.a, t.b)

\* ON CONFLICT (k) DO UPDATE SET c = EXCLUDED.c for every column c of df but
\* the key (lines 174-176).
UpdateRow(t, r, cols) ==
    Row(t.k, IF "a" \in cols THEN r.a ELSE t.a, IF "b" \in cols THEN r.b ELSE t.b)

\* (Variant: a plain INSERT, without the ON CONFLICT clause and without a
\* primary key to refuse it.)
RECURSIVE UpsertRowsBlind(_, _, _)
UpsertRowsBlind(tbl, rows, cols) ==
    IF rows = <<>> THEN tbl
    ELSE UpsertRowsBlind(tbl \cup {Head(rows)}, Tail(rows), cols)

\* INSERT INTO "<table_name>" (cols) SELECT cols FROM "<tmp>" ON CONFLICT (k)
\* DO UPDATE SET ... / DO NOTHING (lines 172-185), one staged row after the
\* other: a row whose key is not in the table is inserted (columns not listed
\* are NULL); a row whose key is there updates it, or with no non-key column
\* is skipped.
RECURSIVE UpsertRows(_, _, _)
UpsertRows(tbl, rows, cols) ==
    IF rows = <<>> THEN tbl
    ELSE LET r == Head(rows)
             conflict == {t \in tbl : t.k = r.k}
             tbl1 == IF conflict = {} THEN tbl \cup {UpdateRow(Row(r.k, Null, Null), r, cols)}
                     ELSE IF cols = {} THEN tbl
                     ELSE (tbl \ conflict) \cup {UpdateRow(t, r, cols) : t \in conflict}
         IN UpsertRows(tbl1, Tail(rows), cols)

\* (Variant: the rows written before the failure stay.)
FailedUpsertHalfApplied(tbl, rows, cols) == UpsertRows(tbl, <<Head(rows)>>, cols)

\* A statement that fails runs in its own transaction (`with engine.begin()`,
\* lines 184-185), which is rolled back: the table is as before the statement.
FailedUpsert(tbl, rows, cols) == tbl

SyncInit ==
    /\ target = {}
    /\ staging = <<>>
    /\ spc = "idle"
    /\ sdf = NoDf
    /\ nsync = 0
    /\ nrep = 0
    /\ before = {}
    /\ lastRes = <<"none", "none">>
    /\ prevDf = NoDf
    /\ prevRes = <<"none", "none">>
    /\ prevAfter = {}

\* What the call of _save_postgres_data(table_name, df, index_name, 'sync')
\* sets up before its first statement.
Called(df) ==
    /\ sdf' = df
    /\ spc' = "create"
    /\ before' = target
    /\ lastRes' = <<"running", "none">>
    /\ prevDf' = sdf
    /\ prevRes' = lastRes
    /\ prevAfter' = target
    /\ UNCHANGED <<workerVars, storageVars>>
    /\ UNCHANGED <<target, staging>>

\* _save_postgres_data is called with some dataframe.
SyncBegin ==
    /\ spc = "idle"
    /\ nsync < MaxSyncs
    /\ nsync' = nsync + 1
    /\ UNCHANGED nrep
    /\ \E df \in Dataframes : Called(df)

\* _save_postgres_data is called again with the dataframe of the call before.
SyncRepeat ==
    /\ spc = "idle"
    /\ nsync > 0
    /\ nrep < MaxRepeats
    /\ nrep' = nrep + 1
    /\ UNCHANGED nsync
    /\ Called(sdf)

\* Lines 164-168: the staging table is created, or the statement is refused
\* and sqlalchemy's ProgrammingError leaves _save_postgres_data.
CreateStaging ==
    /\ spc = "create"
    /\ LET tmp == StagingName(sdf) IN
        IF CreateRefused(staging, tmp)
        THEN /\ spc' = "idle"
             /\ lastRes' = <<"duplicate_table", "create">>
             /\ UNCHANGED staging
        ELSE /\ staging' = CreateTable(staging, tmp)
             /\ spc' = "insert"
             /\ UNCHANGED lastRes
    /\ UNCHANGED <<workerVars, storageVars>>
    /\ UNCHANGED <<target, sdf, nsync, nrep, before, prevDf, prevRes, prevAfter>>

\* Line 170.
InsertStaging ==
    /\ spc = "insert"
    /\ staging' = InsertInto(staging, StagingName(sdf), sdf.rows)
    /\ spc' = "upsert"
    /\ UNCHANGED <<workerVars, storageVars>>
    /\ UNCHANGED <<target, sdf, nsync, nrep, before, lastRes, prevDf, prevRes, prevAfter>>

\* Lines 172-185.
Upsert ==
    /\ spc = "upsert"
    /\ target' = UpsertRows(target, staging[StagingName(sdf)], sdf.cols)
    /\ spc' = "drop"
    /\ UNCHANGED <<workerVars, storageVars>>
    /\ UNCHANGED <<staging, sdf, nsync, nrep, before, lastRes, prevDf, prevRes, prevAfter>>

\* Lines 187-189, then _save_postgres_data returns.
DropStaging ==
    /\ spc = "drop"
    /\ staging' = DropTable(staging, StagingName(sdf))
    /\ spc' = "idle"
    /\ lastRes' = <<"ok", "none">>
    /\ UNCHANGED <<workerVars, storageVars>>
    /\ UNCHANGED <<target, sdf, nsync, nrep, before, prevDf, prevRes, prevAfter>>

SyncStep ==
    \/ CreateStaging
    \/ InsertStaging
    \/ Upsert
    \/ DropStaging

\* A backend fault (a lost connection, a crash of the caller) at the pending
\* statement: the statement has no effect, the exception leaves
\* _save_postgres_data, and no later step of the invocation runs.
SyncFault ==
    /\ spc \in {"create", "insert", "upsert", "drop"}
    /\ target' = IF spc = "upsert"
                 THEN FailedUpsert(target, staging[StagingName(sdf)], sdf.cols)
                 ELSE target
    /\ lastRes' = <<"fault", spc>>
    /\ spc' = "idle"
    /\ UNCHANGED <<workerVars, storageVars>>
    /\ UNCHANGED <<staging, sdf, nsync, nrep, before, prevDf, prevRes, prevAfter>>

\* ===================================================================
\* DataStorageHandler: the entry points and their adapters
\* ===================================================================
\* Rows the relational table may hold, and lines the time-series file may
\* hold, in one run.
MaxRows == 2
MaxLines == 4

\* The backend names callers pass: the four the handler knows and one it
\* does not.
AllSystems == {"postgres", "file", "influx", "streaming", "sqlite"}

\* Lines 52 and 124.
TableSystems == {"postgres", "file"}

\* Lines 233 and 368.
SeriesSystems == {"influx", "file", "streaming"}

\* (Variant: every name passes.)
CheckDataSystemPasses(data_system, candidates) == FALSE

\* _check_data_system (lines 460-472): TRUE when it raises ValueError.
CheckDataSystemRaises(data_system, candidates) == data_system \notin candidates

\* The modes callers pass: the three the docstring names and one it does not.
Modes == {"sync", "append", "replace", "upsert"}

\* A dataframe with the columns of the table and no row.
EmptyDf == [cols |-> NonKeyCols, rows |-> <<>>]

\* Table dataframes with rows: every column, unique keys; the dataframe of
\* all keys holds another version of the rows than those of one key.
TableDataframes ==
    {[cols |-> NonKeyCols,
      rows |-> RowSeq(NonKeyCols, ks, [key \in Keys |-> Cardinality(ks)])] :
        ks \in (SUBSET Keys) \ {{}}}

\* What callers pass as df to _save_table_data: None (NoDf), an empty
\* dataframe, a dataframe with rows.
TableArgs == TableDataframes \cup {NoDf, EmptyDf}

\* (Variant: only None is skipped.)
NothingToSaveNoneOnly(df) == df = NoDf

\* `df is None or not len(df)` (lines 125 and 369).
NothingToSave(df) == df = NoDf \/ Len(df.rows) = 0

\* ---------------------------------------------------------- the stores
\* The relational table "<table_name>": whether it exists, whether it has
\* the primary key of the schema (a table pandas creates has none), its rows.
NoTable == [exists |-> FALSE, keyed |-> FALSE, rows |-> {}]

SchemaTable == [exists |-> TRUE, keyed |-> TRUE, rows |-> {}]

\* A path of the datadrive: whether the file exists, and its content.
NoFile == [exists |-> FALSE, lines |-> <<>>]

File(content) == [exists |-> TRUE, lines |-> content]

\* How an entry point ends: the stores it leaves and "ok" or its exception.
Ended(s, o) == [store |-> s, out |-> o]

\* What a call returns: nothing (a save), None, a table, a time series.
Result(kind, rows) == [kind |-> kind, rows |-> rows]

NoResult == Result("nothing", <<>>)

NoneResult == Result("none", <<>>)

\* ------------------------------------------------- table data, file adapter
\* df.to_csv writes a cell as text, NA as the empty string; pd.read_csv reads
\* the empty string as NA and a numeral as its number.
CsvCell(v) == IF v = Null THEN <<"empty", 0>> ELSE <<"text", v>>

ParseCell(c) == IF c[1] = "text" THEN c[2] ELSE Null

\* The columns of df after reset_index (line 128): the index column and the
\* others; a dataframe without identity column has only the others.
DfColumns(df) ==
    (IF \E i \in 1..Len(df.rows) : df.rows[i].k # Null THEN {"k"} ELSE {}) \cup df.cols

CsvHeader(cols) == [kind |-> "header", cells |-> [c \in cols |-> <<"name", c>>]]

CsvRow(r, cols) == [kind |-> "row", cells |-> [c \in cols |-> CsvCell(r[c])]]

CsvLines(df) ==
    <<CsvHeader(DfColumns(df))>> \o
    [i \in 1..Len(df.rows) |-> CsvRow(df.rows[i], DfColumns(df))]

\* _save_table_data_to_file (lines 193-211).  Lines 207-208 build a
\* ValueError for a mode other than 'replace' and do not raise it; the file
\* is opened with mode='w' whatever `mode` is.
SaveTableDataToFile(s, df, mode) ==
    Ended([s EXCEPT !.dirs = @ \cup {"init_rdb"}, !.csv = File(CsvLines(df))], "ok")

\* A line of the table file read back as a row; a column the file lacks is NA.
ParseCsvRow(line) ==
    LET cell(c) == IF c \in DOMAIN line.cells THEN ParseCell(line.cells[c]) ELSE Null
    IN Row(cell("k"), cell("a"), cell("b"))

\* _load_table_data_from_file (lines 91-107): None when the path does not
\* exist, else the rows under the header line.
LoadTableDataFromFile(f) ==
    IF ~f.exists THEN NoneResult
    ELSE Result("table", {ParseCsvRow(f.lines[i]) : i \in 2..Len(f.lines)})

\* --------------------------------------------- table data, relational adapter
TableIds(t) == {r.k : r \in t.rows} \ {Null}

\* The identity the backend gives a row inserted without one: a value no
\* row of the table has.
NextIdentity(ids) ==
    IF ids = {} THEN 1 ELSE (CHOOSE x \in ids : \A y \in ids : y <= x) + 1

\* The rows as inserted: a row without identity gets the next one.
RECURSIVE AssignIdentity(_, _)
AssignIdentity(ids, rows) ==
    IF rows = <<>> THEN {}
    ELSE LET r == Head(rows)
             id == IF r.k = Null THEN NextIdentity(ids) ELSE r.k
         IN {Row(id, r.a, r.b)} \cup AssignIdentity(ids \cup {id}, Tail(rows))

\* df.to_sql(table_name, engine, index=False, if_exists=mode) (lines 190-191).
\* pandas refuses an if_exists it does not know; it creates a missing table
\* from the dataframe, and for 'replace' drops the table first; 'append' to
\* the schema's table lets the backend assign missing identities and is
\* refused as a whole when a key is already there.
ToSql(s, df, mode) ==
    LET t == s.pg
        fresh == [exists |-> TRUE, keyed |-> FALSE, rows |-> Range(df.rows)]
        conflict == \E r \in Range(df.rows) : r.k # Null /\ r.k \in TableIds(t)
    IN  IF mode \notin {"append", "replace"} THEN Ended(s, "ValueError")
        ELSE IF ~t.exists \/ mode = "replace" THEN Ended([s EXCEPT !.pg = fresh], "ok")
        ELSE IF ~t.keyed THEN Ended([s EXCEPT !.pg.rows = @ \cup Range(df.rows)], "ok")
        ELSE IF conflict THEN Ended(s, "IntegrityError")
        ELSE Ended([s EXCEPT !.pg.rows = @ \cup AssignIdentity(TableIds(t), df.rows)], "ok")

\* _save_postgres_data (lines 141-191) as one call without a backend fault.
\* Lines 156-157 build a ValueError for a mode other than 'sync' and 'append'
\* and do not raise it.  'sync' runs the four statements of SyncStep; its
\* first and third statements are refused when the target table is missing
\* or has no key to conflict on.
SavePostgresData(s, df, mode) ==
    IF mode = "sync"
    THEN IF ~s.pg.exists \/ ~s.pg.keyed THEN Ended(s, "ProgrammingError")
         ELSE Ended([s EXCEPT !.pg.rows = UpsertRows(@, df.rows, df.cols)], "ok")
    ELSE ToSql(s, df, mode)

\* _save_table_data (lines 109-139).
SaveTableData(s, data_system, df, mode) ==
    IF CheckDataSystemRaises(data_system, TableSystems) THEN Ended(s, "ValueError")
    ELSE IF NothingToSave(df) THEN Ended(s, "ok")
    ELSE IF data_system = "postgres" THEN SavePostgresData(s, df, mode)
    ELSE IF data_system = "file" THEN SaveTableDataToFile(s, df, mode)
    ELSE Ended(s, "KeyError")

\* What can go wrong at the backend while pd.read_sql runs: nothing, the
\* connection fails (sqlalchemy.exc.OperationalError), the statement is
\* refused for another reason than a missing table (a table name with a
\* double quote in it, a missing privilege: sqlalchemy.exc.ProgrammingError).
Faults == {"none", "connection", "statement"}

\* _load_postgres_data (lines 68-89): every ProgrammingError is caught and
\* None returned; any other exception leaves the call.
LoadPostgresData(t, fault) ==
    IF fault = "connection" THEN [out |-> "OperationalError", res |-> NoResult]
    ELSE IF fault = "statement" \/ ~t.exists THEN [out |-> "ok", res |-> NoneResult]
    ELSE [out |-> "ok", res |-> Result("table", t.rows)]

\* _load_table_data (lines 38-66).
LoadTableData(s, data_system, fault) ==
    IF CheckDataSystemRaises(data_system, TableSystems)
    THEN [out |-> "ValueError", res |-> NoResult]
    ELSE IF data_system = "postgres" THEN LoadPostgresData(s.pg, fault)
    ELSE IF data_system = "file" THEN [out |-> "ok", res |-> LoadTableDataFromFile(s.csv)]
    ELSE [out |-> "KeyError", res |-> NoResult]

\* ----------------------------------------------------- time-series data
\* The timestamps of the rows, whole seconds of the epoch; a time series is a
\* sequence of rows [t, v] under an index that holds datetimes ("dt") or
\* integer nanoseconds ("int").  Timestamps are timezone-naive.
Times == {1, 2, 3}

Series(idx, rows) == [idx |-> idx, rows |-> rows]

EmptySeries == Series("dt", <<>>)

\* The time series callers save: one row; two rows in time order; two rows
\* out of time order that repeat timestamps of the others.
SeriesDataframes ==
    {Series("dt", <<[t |-> 1, v |-> 1]>>),
     Series("dt", <<[t |-> 2, v |-> 2], [t |-> 3, v |-> 3]>>),
     Series("dt", <<[t |-> 3, v |-> 4], [t |-> 1, v |-> 5]>>)}

\* first_datetime / last_datetime not given.
NoBound == 0

\* The bounds callers pass: none, a timestamp of the rows, one after them all.
Bounds == {NoBound} \cup Times \cup {4}

\* to_csv writes a datetime of the index as text; _convert_datetime (lines
\* 441-458, pd.to_datetime) reads the text as the datetime.
FormatDatetime(t) == <<"time", t>>

ParseDatetime(c) == c[2]

SeriesHeader ==
    [kind |-> "header", cells |-> [time |-> <<"name", "time">>, v |-> <<"name", "v">>]]

SeriesLine(r) ==
    [kind |-> "row", cells |-> [time |-> FormatDatetime(r.t), v |-> CsvCell(r.v)]]

\* (Variant: every save writes a header.)
WriteHeaderAlways(f) == TRUE

\* header = not path.exists() (line 420).
WriteHeader(f) == ~f.exists

\* _save_time_series_data_to_file (lines 406-421): mkdir, then to_csv with
\* mode='a'.
SaveTimeSeriesDataToFile(s, df) ==
    LET head == IF WriteHeader(s.tsf) THEN <<SeriesHeader>> ELSE <<>>
        body == [i \in 1..Len(df.rows) |-> SeriesLine(df.rows[i])]
    IN [s EXCEPT !.dirs = @ \cup {"init_tsdb"},
                 !.tsf = File(s.tsf.lines \o head \o body)]

\* (Variant: the positions are used as line numbers.)
SkipRowAtPosition(position) == position

\* np.where(...)[0] + 1 (lines 316 and 318): the line number, counted from 0
\* with the header line, of the row at a position of the time column.
SkipRow(position) == position + 1

\* Lines 313-320: the line numbers to skip, None when no bound is given.
\* The time column is read with the first line as header (line 313).
SkipRows(lines, first_datetime, last_datetime) ==
    LET positions == 0..(Len(lines) - 2)
        time(p) == ParseDatetime(lines[p + 2].cells.time)
    IN  {SkipRow(p) : p \in {q \in positions :
            first_datetime # NoBound /\ time(q) < first_datetime}}
        \cup
        {SkipRow(p) : p \in {q \in positions :
            last_datetime # NoBound /\ last_datetime <= time(q)}}

\* The lines pd.read_csv keeps: those whose number, counted from 0, is not
\* in skiprows.
KeptLines(lines, skiprows) ==
    LET keep[n \in 0..Len(lines)] ==
            IF n = 0 THEN <<>>
            ELSE keep[n - 1] \o (IF (n - 1) \in skiprows THEN <<>> ELSE <<lines[n]>>)
    IN keep[Len(lines)]

\* pd.read_csv(path, header=0, index_col=0, skiprows=skiprows) and the
\* conversion of the index (lines 321-322): the first kept line names the
\* columns whatever it holds, the others are the rows; a cell of the index
\* that is not a datetime is refused by pd.to_datetime.
ReadSeriesCsv(lines, skiprows) ==
    LET kept == KeptLines(lines, skiprows)
        rows == Tail(kept)
    IN  IF kept = <<>> THEN [out |-> "EmptyDataError", res |-> NoResult]
        ELSE IF \E i \in 1..Len(rows) : rows[i].kind # "row"
        THEN [out |-> "ValueError", res |-> NoResult]
        ELSE [out |-> "ok",
              res |-> Result("series",
                  [i \in 1..Len(rows) |->
                      [t |-> ParseDatetime(rows[i].cells.time),
                       v |-> ParseCell(rows[i].cells.v)]])]

\* _load_time_series_data_from_file (lines 292-323).
LoadTimeSeriesDataFromFile(f, first_datetime, last_datetime) ==
    IF ~f.exists THEN [out |-> "ok", res |-> NoneResult]
    ELSE IF \E i \in 2..Len(f.lines) : f.lines[i].kind # "row"
    THEN [out |-> "ValueError", res |-> NoResult]
    ELSE ReadSeriesCsv(f.lines, SkipRows(f.lines, first_datetime, last_datetime))

\* _save_influx_data (lines 378-404): the points of the dataframe are
\* written to the measurement; a point replaces the one at its timestamp.
SaveInfluxData(s, df) ==
    [s EXCEPT !.influx =
        {p \in @ : \A i \in 1..Len(df.rows) : df.rows[i].t # p.t} \cup Range(df.rows)]

\* The points in time order (df.sort_index, line 288).
RECURSIVE SortByTime(_)
SortByTime(points) ==
    IF points = {} THEN <<>>
    ELSE LET p == CHOOSE x \in points : \A y \in points : x.t <= y.t
         IN <<p>> \o SortByTime(points \ {p})

\* _load_influx_data (lines 251-290): the points in range(start, stop).
LoadInfluxData(points, first_datetime, last_datetime) ==
    Result("series", SortByTime({p \in points :
        /\ first_datetime = NoBound \/ first_datetime <= p.t
        /\ last_datetime = NoBound \/ p.t < last_datetime}))

\* The writes pickle.dump's file object makes for one dataframe, and the
\* reads pickle.load's makes.
PickleBlocks == 2

\* _convert_datetime on the index (line 437): integer nanoseconds become
\* datetimes.
ConvertDatetime(df) == [df EXCEPT !.idx = "dt"]

\* The bytes of pickle.dump(df, f), block after block.
PickleDump(df) == [i \in 1..PickleBlocks |-> [of |-> df, part |-> i]]

\* The bytes are those of one whole pickle.dump.
WellFormed(blocks) ==
    /\ Len(blocks) = PickleBlocks
    /\ \A i \in 1..Len(blocks) : blocks[i] = PickleDump(blocks[1].of)[i]

\* (Variant: the snapshot is added to the file.)
WriteSnapshotAppended(old, blocks) == old \o blocks

\* path.open('wb') and pickle.dump (lines 438-439): the file holds the new
\* snapshot alone.
WriteSnapshot(old, blocks) == blocks

\* _save_time_series_data_streaming (lines 423-439) run without another
\* thread in between.
SaveTimeSeriesDataStreaming(s, df) ==
    [s EXCEPT !.dirs = @ \cup {"streaming_temp"},
              !.pkl = File(WriteSnapshot(s.pkl.lines, PickleDump(ConvertDatetime(df))))]

\* pickle.load of a file nobody writes: the first pickle of the file.
PickleLoad(blocks) == blocks[1].of

\* _save_time_series_data (lines 353-376).
SaveTimeSeriesData(s, data_system, df) ==
    IF CheckDataSystemRaises(data_system, SeriesSystems) THEN Ended(s, "ValueError")
    ELSE IF NothingToSave(df) THEN Ended(s, "ok")
    ELSE IF data_system = "influx" THEN Ended(SaveInfluxData(s, df), "ok")
    ELSE IF data_system = "file" THEN Ended(SaveTimeSeriesDataToFile(s, df), "ok")
    ELSE IF data_system = "streaming" THEN Ended(SaveTimeSeriesDataStreaming(s, df), "ok")
    ELSE Ended(s, "KeyError")

\* _load_time_series_data (lines 213-249); the casts of lines 246-248 keep
\* the rows.  The streaming adapter (lines 325-351) takes no bounds.
LoadTimeSeriesData(s, data_system, first_datetime, last_datetime) ==
    IF CheckDataSystemRaises(data_system, SeriesSystems)
    THEN [out |-> "ValueError", res |-> NoResult]
    ELSE IF data_system = "influx"
    THEN [out |-> "ok", res |-> LoadInfluxData(s.influx, first_datetime, last_datetime)]
    ELSE IF data_system = "file"
    THEN LoadTimeSeriesDataFromFile(s.tsf, first_datetime, last_datetime)
    ELSE IF data_system = "streaming"
    THEN [out |-> "ok",
          res |-> IF s.pkl.exists THEN Result("series", PickleLoad(s.pkl.lines).rows)
                  ELSE NoneResult]
    ELSE [out |-> "KeyError", res |-> NoResult]

\* ------------------------------------------- DataManager, child records
\* The child records of an entity (time_series_structural_models,
\* time_series_batch_dependencies): an identity, None (Null) before the
\* record is persisted, and a payload.
ChildRecord(id, v) == [id |-> id, v |-> v]

\* The record lists a caller exports: up to two records, payloads and given
\* identities unique.
ChildRecordLists ==
    {<<>>} \cup
    {<<ChildRecord(id, v)>> : id \in Keys \cup {Null}, v \in Vals} \cup
    {<<ChildRecord(ids[1], 1), ChildRecord(ids[2], 2)>> :
        ids \in {p \in (Keys \cup {Null}) \X (Keys \cup {Null}) :
                    p[1] = Null \/ p[1] # p[2]}}

\* (Variant: every record counts as persisted.)
IdExistsAlways(r) == TRUE

\* idx_id_exists = ~df['id'].isna() (lines 598 and 1091).
IdExists(r) == r.id # Null

\* The dataframe of the records selected: their identity as key (set_index,
\* line 600), or no identity column (drop, line 608).
ChildDataframe(recs) ==
    [cols |-> NonKeyCols,
     rows |-> [i \in 1..Len(recs) |-> DfRow(NonKeyCols, recs[i].id, recs[i].v)]]

\* Lines 596-614 and 1089-1107: nothing for an empty list; else the records
\* with identity are saved with mode 'sync', then the others with mode
\* 'append'.  `sent` lists the calls of _save_table_data made.
ExportChildren(s, data_system, recs) ==
    LET df1 == ChildDataframe(SelectSeq(recs, LAMBDA r : IdExists(r)))
        df2 == ChildDataframe(SelectSeq(recs, LAMBDA r : ~IdExists(r)))
        r1 == SaveTableData(s, data_system, df1, "sync")
        r2 == SaveTableData(r1.store, data_system, df2, "append")
        call1 == [mode |-> "sync", df |-> df1]
        call2 == [mode |-> "append", df |-> df2]
    IN  IF Len(recs) = 0 THEN [store |-> s, out |-> "ok", sent |-> <<>>]
        ELSE IF r1.out # "ok" THEN [store |-> r1.store, out |-> r1.out, sent |-> <<call1>>]
        ELSE [store |-> r2.store, out |-> r2.out, sent |-> <<call1, call2>>]

\* ------------------------------------------------------------ the calls
CallOf(op, data_system, mode, df, first_datetime, last_datetime, fault, sent) ==
    [op |-> op, ds |-> data_system, mode |-> mode, df |-> df,
     first |-> first_datetime, last |-> last_datetime, fault |-> fault, sent |-> sent]

StoreInit ==
    /\ store = [pg |-> NoTable, csv |-> NoFile, tsf |-> NoFile, pkl |-> NoFile,
                influx |-> {}, dirs |-> {}]
    /\ call = CallOf("none", "none", "none", NoDf, NoBound, NoBound, "none", <<>>)
    /\ out = "none"
    /\ res = NoResult
    /\ written = <<>>

\* DataManager.init_rdb (data_manager.py lines 64-114): the schema's table
\* is created if no table of its name exists, then the rows of the table
\* file, if there is one, are appended.
InitRdb ==
    LET s1 == IF store.pg.exists THEN store ELSE [store EXCEPT !.pg = SchemaTable]
        loaded == LoadTableData(s1, "file", "none")
        df == [cols |-> NonKeyCols,
               rows |-> [i \in 1..(Len(s1.csv.lines) - 1) |-> ParseCsvRow(s1.csv.lines[i + 1])]]
        r == IF loaded.res.kind = "none" THEN Ended(s1, "ok")
             ELSE SaveTableData(s1, "postgres", df, "append")
    IN  /\ Cardinality(r.store.pg.rows) <= MaxRows
        /\ store' = r.store
        /\ out' = r.out
        /\ res' = NoResult
        /\ call' = CallOf("init_rdb", "postgres", "append", NoDf, NoBound, NoBound, "none", <<>>)
        /\ UNCHANGED written
        /\ UNCHANGED <<workerVars, syncVars, streamVars, managerVars>>

\* A call of _save_table_data.
SaveTable(data_system, df, mode) ==
    LET r == SaveTableData(store, data_system, df, mode)
    IN  /\ Cardinality(r.store.pg.rows) <= MaxRows
        /\ store' = r.store
        /\ out' = r.out
        /\ res' = NoResult
        /\ call' = CallOf("save_table", data_system, mode, df, NoBound, NoBound, "none", <<>>)
        /\ UNCHANGED written
        /\ UNCHANGED <<workerVars, syncVars, streamVars, managerVars>>

\* A call of _load_table_data; the backend fault, if any, is one of the
\* relational backend.
LoadTable(data_system, fault) ==
    LET r == LoadTableData(store, data_system, fault)
    IN  /\ fault = "none" \/ data_system = "postgres"
        /\ out' = r.out
        /\ res' = r.res
        /\ call' = CallOf("load_table", data_system, "none", NoDf, NoBound, NoBound, fault, <<>>)
        /\ UNCHANGED <<store, written>>
        /\ UNCHANGED <<workerVars, syncVars, streamVars, managerVars>>

\* A call of the child-record part of _export_time_series_metadata or
\* _export_time_series_batch_metadata.
ExportChildRecords(data_system, recs) ==
    LET r == ExportChildren(store, data_system, recs)
    IN  /\ Cardinality(r.store.pg.rows) <= MaxRows
        /\ store' = r.store
        /\ out' = r.out
        /\ res' = NoResult
        /\ call' = CallOf("export", data_system, "none", ChildDataframe(recs),
                          NoBound, NoBound, "none", r.sent)
        /\ UNCHANGED written
        /\ UNCHANGED <<workerVars, syncVars, streamVars, managerVars>>

\* A call of _save_time_series_data.
SaveTimeSeries(data_system, df) ==
    LET r == SaveTimeSeriesData(store, data_system, df)
    IN  /\ Len(r.store.tsf.lines) <= MaxLines
        /\ store' = r.store
        /\ out' = r.out
        /\ res' = NoResult
        /\ call' = CallOf("save_series", data_system, "none", df, NoBound, NoBound, "none", <<>>)
        /\ written' = IF data_system = "file" /\ Len(df.rows) > 0
                      THEN written \o df.rows ELSE written
        /\ UNCHANGED <<workerVars, syncVars, streamVars, managerVars>>

\* A call of _load_time_series_data while no thread writes the stream.
LoadTimeSeries(data_system, first_datetime, last_datetime) ==
    LET r == LoadTimeSeriesData(store, data_system, first_datetime, last_datetime)
    IN  /\ out' = r.out
        /\ res' = r.res
        /\ call' = CallOf("load_series", data_system, "none", NoDf,
                          first_datetime, last_datetime, "none", <<>>)
        /\ UNCHANGED <<store, written>>
        /\ UNCHANGED <<workerVars, syncVars, streamVars, managerVars>>

\* The table entry points on the backends they know.
SaveTableCall ==
    \E data_system \in TableSystems, df \in TableArgs, mode \in Modes :
        SaveTable(data_system, df, mode)

LoadTableCall ==
    \E data_system \in TableSystems, fault \in Faults : LoadTable(data_system, fault)

ExportChildRecordsCall ==
    \E data_system \in TableSystems, recs \in ChildRecordLists :
        ExportChildRecords(data_system, recs)

\* The time-series file: saves of the dataframes, loads with every bound.
SaveTimeSeriesCall ==
    \E df \in SeriesDataframes \cup {NoDf, EmptySeries} : SaveTimeSeries("file", df)

LoadTimeSeriesCall ==
    \E first_datetime \in Bounds, last_datetime \in Bounds :
        LoadTimeSeries("file", first_datetime, last_datetime)

\* One dataframe of each kind: None, without rows, with rows.
TableKinds ==
    {NoDf, EmptyDf, [cols |-> NonKeyCols, rows |-> <<DfRow(NonKeyCols, 1, 1)>>]}

SeriesKinds == {NoDf, EmptySeries, Series("int", <<[t |-> 1, v |-> 1]>>)}

\* The four entry points called with every backend name, every mode and a
\* dataframe of every kind.
TableSaveEntry ==
    \E data_system \in AllSystems, df \in TableKinds, mode \in Modes :
        SaveTable(data_system, df, mode)

TableLoadEntry ==
    \E data_system \in AllSystems : LoadTable(data_system, "none")

SeriesSaveEntry ==
    \E data_system \in AllSystems, df \in SeriesKinds : SaveTimeSeries(data_system, df)

SeriesLoadEntry ==
    \E data_system \in AllSystems : LoadTimeSeries(data_system, NoBound, NoBound)

\* ===================================================================
\* The streaming adapter, one thread saving and one loading
\* ===================================================================
\* Saves and loads of the stream in one run.
MaxSaves == 2
MaxLoads == 2

\* The snapshots the saving thread passes: an index of integer nanoseconds,
\* an index of datetimes, two rows.
StreamDataframes ==
    {Series("int", <<[t |-> 1, v |-> 1]>>),
     Series("dt", <<[t |-> 2, v |-> 2]>>),
     Series("dt", <<[t |-> 1, v |-> 3], [t |-> 3, v |-> 4]>>)}

\* What a load of the stream returns: None, a dataframe, or the object
\* pickle builds from bytes that are not those of one pickle.dump.
Loaded(kind, df) == [kind |-> kind, df |-> df]

StreamInit ==
    /\ wpc = "idle"
    /\ wdf = NoDf
    /\ wpos = 0
    /\ nsave = 0
    /\ rpc = "idle"
    /\ rbuf = <<>>
    /\ nload = 0
    /\ rargs = <<NoBound, NoBound>>
    /\ rres = Loaded("nothing", NoDf)
    /\ rout = "none"
    /\ quiet = TRUE
    /\ lastSaved = NoDf
    /\ begun = {}

\* _save_time_series_data(data_system='streaming') with a dataframe that has
\* rows, up to line 437: mkdir, then the index is converted.
SaveBegin ==
    /\ wpc = "idle"
    /\ nsave < MaxSaves
    /\ \E df \in StreamDataframes :
        /\ wdf' = ConvertDatetime(df)
        /\ begun' = begun \cup {ConvertDatetime(df)}
    /\ store' = [store EXCEPT !.dirs = @ \cup {"streaming_temp"}]
    /\ wpc' = "open"
    /\ nsave' = nsave + 1
    /\ quiet' = (quiet /\ rpc = "idle")
    /\ UNCHANGED <<wpos, rpc, rbuf, nload, rargs, rres, rout, lastSaved>>
    /\ UNCHANGED <<call, out, res, written>>
    /\ UNCHANGED <<workerVars, syncVars, managerVars>>

\* path.open('wb') (line 438): the file is created, or emptied in place.
OpenForWriting ==
    /\ wpc = "open"
    /\ store' = [store EXCEPT !.pkl = File(WriteSnapshot(@.lines, <<>>))]
    /\ wpc' = "dump"
    /\ wpos' = 0
    /\ UNCHANGED <<wdf, nsave, rpc, rbuf, nload, rargs, rres, rout, quiet, lastSaved, begun>>
    /\ UNCHANGED <<call, out, res, written>>
    /\ UNCHANGED <<workerVars, syncVars, managerVars>>

\* pickle.dump (line 439): the next block reaches the file; after the last
\* one the file is closed and the save returns.
WriteBlock ==
    /\ wpc = "dump"
    /\ store' = [store EXCEPT !.pkl = File(@.lines \o <<PickleDump(wdf)[wpos + 1]>>)]
    /\ wpos' = wpos + 1
    /\ IF wpos + 1 = PickleBlocks
       THEN wpc' = "idle" /\ lastSaved' = wdf
       ELSE UNCHANGED <<wpc, lastSaved>>
    /\ UNCHANGED <<wdf, nsave, rpc, rbuf, nload, rargs, rres, rout, quiet, begun>>
    /\ UNCHANGED <<call, out, res, written>>
    /\ UNCHANGED <<workerVars, syncVars, managerVars>>

\* _load_time_series_data(data_system='streaming') up to line 341: None when
\* the path does not exist.  The bounds are passed on and not used (line 328).
LoadBegin ==
    /\ rpc = "idle"
    /\ nload < MaxLoads
    /\ nload' = nload + 1
    /\ \E first_datetime \in Bounds, last_datetime \in Bounds :
        rargs' = <<first_datetime, last_datetime>>
    /\ quiet' = (wpc = "idle")
    /\ IF store.pkl.exists
       THEN /\ rpc' = "open"
            /\ rres' = Loaded("nothing", NoDf)
            /\ rout' = "none"
       ELSE /\ rpc' = "idle"
            /\ rres' = Loaded("none", NoDf)
            /\ rout' = "ok"
    /\ UNCHANGED <<wpc, wdf, wpos, nsave, rbuf, lastSaved, begun>>
    /\ UNCHANGED <<store, call, out, res, written>>
    /\ UNCHANGED <<workerVars, syncVars, managerVars>>

\* path.open('rb') (line 346), at the first pass of the loop and at every
\* retry.
OpenForReading ==
    /\ rpc = "open"
    /\ rbuf' = <<>>
    /\ rpc' = "read"
    /\ UNCHANGED <<wpc, wdf, wpos, nsave, nload, rargs, rres, rout, quiet, lastSaved, begun>>
    /\ UNCHANGED <<store, call, out, res, written>>
    /\ UNCHANGED <<workerVars, syncVars, managerVars>>

\* pickle.load (line 347) reads the block at its position of the file as
\* the file is now; at the end of the file it raises EOFError, which is
\* caught (line 349), and the loop opens the file again.
ReadBlock ==
    /\ rpc = "read"
    /\ IF Len(rbuf) < Len(store.pkl.lines)
       THEN /\ rbuf' = Append(rbuf, store.pkl.lines[Len(rbuf) + 1])
            /\ rpc' = IF Len(rbuf) + 1 = PickleBlocks THEN "unpickle" ELSE "read"
       ELSE /\ rbuf' = <<>>
            /\ rpc' = "open"
    /\ UNCHANGED <<wpc, wdf, wpos, nsave, nload, rargs, rres, rout, quiet, lastSaved, begun>>
    /\ UNCHANGED <<store, call, out, res, written>>
    /\ UNCHANGED <<workerVars, syncVars, managerVars>>

\* What pickle.load makes of blocks that are not those of one pickle.dump:
\* it raises UnpicklingError, which is caught (line 350) and the read is
\* retried; it raises another exception, which leaves the load; or the bytes
\* parse and it returns the object they describe.
TornOutcomes == {"retry", "raise", "return"}

\* pickle.load has read the blocks of a pickle and returns or raises.
Unpickle ==
    /\ rpc = "unpickle"
    /\ IF WellFormed(rbuf)
       THEN /\ rres' = Loaded("series", PickleLoad(rbuf))
            /\ rout' = "ok"
            /\ rpc' = "idle"
       ELSE \E outcome \in TornOutcomes :
            /\ rpc' = IF outcome = "retry" THEN "open" ELSE "idle"
            /\ rout' = IF outcome = "retry" THEN rout
                       ELSE IF outcome = "raise" THEN "Exception" ELSE "ok"
            /\ rres' = IF outcome = "return" THEN Loaded("corrupt", NoDf) ELSE rres
    /\ rbuf' = <<>>
    /\ UNCHANGED <<wpc, wdf, wpos, nsave, nload, rargs, quiet, lastSaved, begun>>
    /\ UNCHANGED <<store, call, out, res, written>>
    /\ UNCHANGED <<workerVars, syncVars, managerVars>>

SavingThread == SaveBegin \/ OpenForWriting \/ WriteBlock

LoadingThread == LoadBegin \/ OpenForReading \/ ReadBlock \/ Unpickle

\* ===================================================================
\* _save_table_data and _load_table_data on the file backend, with the
\* columns of the dataframes and the schema declarations
\* ===================================================================
\* The table files callers name: the stem of the first has a schema
\* declaration, the stem of the second has none.
TableNames == {"sensor", "rosette"}

\* data_structure_cfg (line 36): per table the declared columns (their
\* declared types are nullable and hold every value of the model).
Declaration == [sensor |-> {"k", "a", "b"}]

\* df.index.name of a dataframe with the default index.
NoName == "None"

\* A dataframe: the name of its index, its columns in order, its rows in
\* order; a row maps the index name and every column to a value or NA (Null).
Frame(index, columns, rows) == [index |-> index, columns |-> columns, rows |-> rows]

NoFrame == Frame(NoName, <<>>, <<>>)

\* The cell of the row of `key` under column c.
CellOf(key, c) ==
    IF c = "k" THEN key ELSE IF c = "a" THEN key ELSE IF c = "b" THEN Null ELSE 3 - key

\* The tabular datasets callers save: key column "k", unique keys, rows in
\* any order; the key alone or with columns, "x" being one no declaration
\* names and "b" holding NA.
TableFrames ==
    {Frame("k", columns,
           [i \in 1..Len(keys) |-> [c \in {"k"} \cup Range(columns) |-> CellOf(keys[i], c)]]) :
        columns \in {<<>>, <<"a">>, <<"a", "b">>, <<"x", "a">>, <<"b", "x", "a">>},
        keys \in {<<1>>, <<2, 1>>}}

\* df.reset_index() (line 128) of a dataframe with a named index: the index
\* becomes the first column.
ResetIndex(df) == Frame(NoName, <<df.index>> \o df.columns, df.rows)

\* (Variant: no column is dropped.)
DropNothing(table_name, df) == df

\* Lines 62-63 and 131-132: the columns the declaration does not name are
\* dropped.
DropUndeclared(table_name, df) ==
    LET keep == Declaration[table_name]
    IN  Frame(df.index, SelectSeq(df.columns, LAMBDA c : c \in keep),
              [i \in 1..Len(df.rows) |->
                  [c \in (DOMAIN df.rows[i]) \cap keep |-> df.rows[i][c]]])

\* df.astype(mapping) raises KeyError for a key of the mapping that is no
\* column of df.  Line 133 keeps the declared columns df has; line 64 passes
\* the whole declaration.
AstypeRaises(df, mapping) == \E c \in mapping : c \notin Range(df.columns)

\* A table file: the header line and the lines under it, cell by cell.
NoCsv == [exists |-> FALSE, header |-> <<>>, lines |-> <<>>]

\* df.to_csv(path, header=True, index=False, mode='w') (line 211).
ToCsv(df) ==
    [exists |-> TRUE, header |-> df.columns,
     lines |-> [i \in 1..Len(df.rows) |->
                   [j \in 1..Len(df.columns) |-> CsvCell(df.rows[i][df.columns[j]])]]]

\* pd.read_csv(path, header=0, index_col=None) (line 107).
ReadCsv(f) ==
    Frame(NoName, f.header,
          [i \in 1..Len(f.lines) |->
              [c \in Range(f.header) |->
                  ParseCell(f.lines[i][CHOOSE j \in 1..Len(f.header) : f.header[j] = c])]])

\* df.set_index(df.columns[0]) (line 65).
SetIndex(df) == Frame(df.columns[1], Tail(df.columns), df.rows)

FrameInit ==
    /\ tfile = [t \in TableNames |-> NoCsv]
    /\ tcall = [op |-> "none", table |-> "none", df |-> NoFrame]
    /\ tout = "none"
    /\ tret = NoFrame
    /\ tsaved = [t \in TableNames |-> NoFrame]

\* A call of _save_table_data(path, df, data_system='file') (lines 109-139),
\* which ends in _save_table_data_to_file: tret is the dataframe handed to
\* the adapter.
SaveFrame(table_name, df) ==
    LET d1 == ResetIndex(df)
        declared == table_name \in DOMAIN Declaration
        d2 == IF declared THEN DropUndeclared(table_name, d1) ELSE d1
        data_types == IF declared THEN Declaration[table_name] \cap Range(d2.columns) ELSE {}
        r == IF Len(df.rows) = 0 THEN [file |-> tfile[table_name], ret |-> NoFrame, out |-> "ok"]
             ELSE IF AstypeRaises(d2, data_types)
             THEN [file |-> tfile[table_name], ret |-> NoFrame, out |-> "KeyError"]
             ELSE [file |-> ToCsv(d2), ret |-> d2, out |-> "ok"]
    IN  /\ tfile' = [tfile EXCEPT ![table_name] = r.file]
        /\ tout' = r.out
        /\ tret' = r.ret
        /\ tcall' = [op |-> "save", table |-> table_name, df |-> df]
        /\ tsaved' = IF r.ret = NoFrame THEN tsaved ELSE [tsaved EXCEPT ![table_name] = df]
        /\ UNCHANGED <<workerVars, syncVars, storeVars, streamVars, importVars, updateVars,
                     appendVars, staticVars>>

\* A call of _load_table_data(path, data_system='file') (lines 38-66).
LoadFrame(table_name) ==
    LET f == tfile[table_name]
        d1 == ReadCsv(f)
        declared == table_name \in DOMAIN Declaration
        d2 == IF declared THEN DropUndeclared(table_name, d1) ELSE d1
        r == IF ~f.exists THEN [ret |-> NoFrame, out |-> "None"]
             ELSE IF declared /\ AstypeRaises(d2, Declaration[table_name])
             THEN [ret |-> NoFrame, out |-> "KeyError"]
             ELSE IF Len(d2.columns) = 0 THEN [ret |-> NoFrame, out |-> "IndexError"]
             ELSE [ret |-> SetIndex(d2), out |-> "frame"]
    IN  /\ tout' = r.out
        /\ tret' = r.ret
        /\ tcall' = [op |-> "load", table |-> table_name, df |-> NoFrame]
        /\ UNCHANGED <<tfile, tsaved>>
        /\ UNCHANGED <<workerVars, syncVars, storeVars, streamVars, importVars, updateVars,
                     appendVars, staticVars>>

SaveFrameCall ==
    \E table_name \in TableNames, df \in TableFrames \cup {Frame("k", <<"a">>, <<>>)} :
        SaveFrame(table_name, df)

LoadFrameCall == \E table_name \in TableNames : LoadFrame(table_name)

\* ===================================================================
\* DataManager: time-series data with its fields and tags, file backend
\* ===================================================================
\* TimeSeriesData.TAG_KEYS (time_series_data.py line 14).
TAG_KEYS == {"batch_id", "service_name", "batch_datetime"}

\* A column label: a str or an int, with the text str() gives for it.
StrName(text) == [type |-> "str", text |-> text]

IntName(text) == [type |-> "int", text |-> text]

TimeName == StrName("time")

\* The cell of the row at time t under column c; the column "1" holds NA at
\* time 3.
SeriesCell(t, c) ==
    IF c = TimeName THEN t
    ELSE IF c.text = "batch_id" THEN 1
    ELSE IF c.text = "service_name" THEN 2
    ELSE IF c.text = "1" /\ t = 3 THEN Null
    ELSE t

\* The dataframe with index 'time' that holds `columns` at `times`.
SeriesFrame(columns, times) ==
    Frame(TimeName, columns,
          [i \in 1..Len(times) |->
              [c \in {TimeName} \cup Range(columns) |-> SeriesCell(times[i], c)]])

\* The TimeSeriesData callers export: fields and tags over the same unique
\* timestamps, in or out of time order, or without rows.  The field columns
\* are numbered, by str or by int labels, or named; one name begins with a
\* tag key.
TimeSeriesDatasets ==
    {[fields |-> SeriesFrame(fields, times), tags |-> SeriesFrame(tags, times)] :
        fields \in {<<StrName("0")>>, <<StrName("0"), StrName("1")>>, <<IntName("0")>>,
                    <<StrName("x")>>, <<StrName("0"), StrName("batch_id_raw")>>},
        tags \in {<<StrName("batch_id")>>, <<StrName("batch_id"), StrName("service_name")>>},
        times \in {<<>>, <<2>>, <<3, 1>>}}

NoData == [fields |-> NoFrame, tags |-> NoFrame]

\* df.columns.str.match('|'.join(tag_keys), na=False) (lines 246 and 929):
\* re.match of the alternation, which is anchored at the start of the label
\* only; a label that is no str does not match.
MatchesTagKeys(c, tag_keys) ==
    /\ c.type = "str"
    /\ \E key \in tag_keys :
          Len(key) <= Len(c.text) /\ SubSeq(c.text, 1, Len(key)) = key

\* Index.astype(int) (line 247) takes a label that is an int or the text of
\* one, and raises ValueError for any other.
IsNumeral(c) ==
    \/ c.type = "int"
    \/ /\ Len(c.text) > 0
       /\ \A i \in 1..Len(c.text) :
             SubSeq(c.text, i, i) \in {"0", "1", "2", "3", "4", "5", "6", "7", "8", "9"}

\* (Variant: the rows without a value in the columns selected are left out.)
SelectColumnsOfFilledRows(df, cols) ==
    Frame(df.index, SelectSeq(df.columns, LAMBDA c : c \in cols),
          SelectSeq([i \in 1..Len(df.rows) |->
                        [c \in cols \cup {df.index} |-> df.rows[i][c]]],
                    LAMBDA r : \E c \in cols : r[c] # Null))

\* df.loc[:, mask] (lines 930-931): every row, the columns selected.
SelectColumns(df, cols) ==
    Frame(df.index, SelectSeq(df.columns, LAMBDA c : c \in cols),
          [i \in 1..Len(df.rows) |-> [c \in cols \cup {df.index} |-> df.rows[i][c]]])

\* fields.join(tags, how='left') (lines 1034-1037) for tags with unique
\* timestamps and other columns than fields: the rows of fields, each with
\* the cells of the tags row of its timestamp, NA when there is none.
JoinLeft(fields, tags) ==
    LET tagcell(t, c) ==
            IF \E j \in 1..Len(tags.rows) : tags.rows[j][TimeName] = t
            THEN tags.rows[CHOOSE j \in 1..Len(tags.rows) : tags.rows[j][TimeName] = t][c]
            ELSE Null
    IN  Frame(fields.index, fields.columns \o tags.columns,
              [i \in 1..Len(fields.rows) |->
                  [c \in {TimeName} \cup Range(fields.columns) \cup Range(tags.columns) |->
                      IF c \in DOMAIN fields.rows[i] THEN fields.rows[i][c]
                      ELSE tagcell(fields.rows[i][TimeName], c)]])

\* df.to_csv(path, header=header, index=True, mode='a') (lines 420-421): the
\* lines added to the file, labels and cells as text.
SeriesToCsv(f, df) ==
    LET head == IF WriteHeader(f)
                THEN <<[kind |-> "header",
                        cells |-> <<"time">> \o [j \in 1..Len(df.columns) |-> df.columns[j].text]]>>
                ELSE <<>>
        body == [i \in 1..Len(df.rows) |->
                    [kind |-> "row",
                     cells |-> [time |-> FormatDatetime(df.rows[i][TimeName])],
                     values |-> [j \in 1..Len(df.columns) |->
                                    CsvCell(df.rows[i][df.columns[j]])]]]
    IN  File(f.lines \o head \o body)

\* pd.read_csv(path, header=0, index_col=0, skiprows=skiprows) and the
\* conversion of the index (lines 321-322) on the lines kept: the labels are
\* read as str; a cell a line lacks is NA.
ReadSeriesFrame(kept) ==
    LET labels == Tail(kept[1].cells)
        columns == [j \in 1..Len(labels) |-> StrName(labels[j])]
        cell(line, c) ==
            IF c = TimeName THEN ParseDatetime(line.cells.time)
            ELSE LET j == CHOOSE n \in 1..Len(columns) : columns[n] = c
                 IN IF j <= Len(line.values) THEN ParseCell(line.values[j]) ELSE Null
    IN  Frame(TimeName, columns,
              [i \in 1..(Len(kept) - 1) |->
                  [c \in {TimeName} \cup Range(columns) |-> cell(kept[i + 1], c)]])

\* _load_time_series_data (lines 213-249) with data_system 'file'.  Line 247
\* assigns the converted labels to a copy, so the labels stay as read, and
\* line 248 casts the field cells to float.
LoadTimeSeriesFrame(f, tag_keys, first_datetime, last_datetime) ==
    LET kept == KeptLines(f.lines, SkipRows(f.lines, first_datetime, last_datetime))
        df == ReadSeriesFrame(kept)
    IN  IF ~f.exists THEN [out |-> "None", df |-> NoFrame]
        ELSE IF \E i \in 2..Len(kept) : Len(kept[i].values) > Len(df.columns)
        THEN [out |-> "ParserError", df |-> NoFrame]
        ELSE IF \E c \in Range(df.columns) : ~MatchesTagKeys(c, tag_keys) /\ ~IsNumeral(c)
        THEN [out |-> "ValueError", df |-> NoFrame]
        ELSE [out |-> "frame", df |-> df]

ImportInit ==
    /\ ifile = NoFile
    /\ icall = [op |-> "none", data |-> NoData, first |-> NoBound, last |-> NoBound]
    /\ iout = "none"
    /\ iret = NoData
    /\ isaved = [first |-> NoData, exports |-> 0]

\* _export_time_series_data (lines 1014-1043) of one data name with
\* data_system 'file': the join is saved by _save_time_series_data, which
\* returns at once for a dataframe without rows (line 369).
ExportTimeSeries(data) ==
    LET df == JoinLeft(data.fields, data.tags)
        f == IF Len(df.rows) = 0 THEN ifile ELSE SeriesToCsv(ifile, df)
    IN  /\ Len(f.lines) <= MaxLines
        /\ ifile' = f
        /\ iout' = "ok"
        /\ iret' = NoData
        /\ icall' = [op |-> "export", data |-> data, first |-> NoBound, last |-> NoBound]
        /\ isaved.exports < MaxSaves
        /\ isaved' = [first |-> IF isaved.exports = 0 THEN data ELSE isaved.first,
                       exports |-> isaved.exports + 1]
        /\ UNCHANGED <<workerVars, syncVars, storeVars, streamVars, frameVars, updateVars,
                 appendVars, staticVars>>

\* _import_time_series_data (lines 895-938) of one data name with
\* data_system 'file': the name is left out when the load returns None.
ImportTimeSeries(first_datetime, last_datetime) ==
    LET r == LoadTimeSeriesFrame(ifile, TAG_KEYS, first_datetime, last_datetime)
        tag_idx == {c \in Range(r.df.columns) : MatchesTagKeys(c, TAG_KEYS)}
    IN  /\ iout' = IF r.out = "None" THEN "empty" ELSE IF r.out = "frame" THEN "data" ELSE r.out
        /\ iret' = IF r.out # "frame" THEN NoData
                   ELSE [fields |-> SelectColumns(r.df, Range(r.df.columns) \ tag_idx),
                         tags |-> SelectColumns(r.df, tag_idx)]
        /\ icall' = [op |-> "import", data |-> NoData,
                     first |-> first_datetime, last |-> last_datetime]
        /\ UNCHANGED <<ifile, isaved>>
        /\ UNCHANGED <<workerVars, syncVars, storeVars, streamVars, frameVars, updateVars,
                 appendVars, staticVars>>

\* shutil.rmtree(DATADRIVE_TMP) (test_export_time_series): the store is
\* empty again.
RemoveStore ==
    /\ ifile.exists
    /\ ifile' = NoFile
    /\ isaved' = [first |-> NoData, exports |-> 0]
    /\ iout' = "ok"
    /\ iret' = NoData
    /\ icall' = [op |-> "rmtree", data |-> NoData, first |-> NoBound, last |-> NoBound]
    /\ UNCHANGED <<workerVars, syncVars, storeVars, streamVars, frameVars, updateVars,
                 appendVars, staticVars>>

ExportTimeSeriesCall == \E data \in TimeSeriesDatasets : ExportTimeSeries(data)

ImportTimeSeriesCall ==
    \E first_datetime \in {NoBound, 2}, last_datetime \in {NoBound, 3} :
        ImportTimeSeries(first_datetime, last_datetime)

\* ===================================================================
\* StaticData.update and DynamicData.update
\* ===================================================================
\* The dict attributes of StaticData (static_data.py lines 14-18) and of
\* DynamicData (dynamic_data.py lines 11-12).
StaticMappings ==
    {"service_metadata", "time_series_metadata", "instance_metadata", "sensors",
     "structural_models"}

DynamicMappings == {"time_series_data", "time_series_batch_metadata"}

\* A dict: its items <<key, value>> in insertion order, keys unique.
DictKeys(d) == {d[i][1] : i \in 1..Len(d)}

DictGet(d, key) == d[CHOOSE i \in 1..Len(d) : d[i][1] = key][2]

\* (Variant: the value of a key the dict has is kept.)
RECURSIVE DictSetDefault(_, _)
DictSetDefault(d, other) ==
    IF other = <<>> THEN d
    ELSE DictSetDefault(IF Head(other)[1] \in DictKeys(d) THEN d ELSE Append(d, Head(other)),
                        Tail(other))

\* dict.update(other): item after item of other, the value of a key the dict
\* has is replaced where it stands, a new key is added at the end.
RECURSIVE DictUpdate(_, _)
DictUpdate(d, other) ==
    IF other = <<>> THEN d
    ELSE LET item == Head(other)
             set == IF item[1] \in DictKeys(d)
                    THEN [i \in 1..Len(d) |-> IF d[i][1] = item[1] THEN item ELSE d[i]]
                    ELSE Append(d, item)
         IN DictUpdate(set, Tail(other))

\* An aggregate: its class and its dicts.
Aggregate(kind, maps) == [kind |-> kind, maps |-> maps]

\* The aggregates callers pass to update: every combination of dicts that
\* bring a new value for key 1 and, for DynamicData, a key 2 listed first.
Others(kind) ==
    IF kind = "StaticData"
    THEN {Aggregate(kind, m) : m \in [StaticMappings -> {<<>>, <<<<1, 2>>>>}]}
    ELSE {Aggregate(kind, m) :
            m \in [DynamicMappings -> {<<>>, <<<<1, 2>>>>, <<<<2, 2>>, <<1, 2>>>>}]}

UpdateInit ==
    /\ agg = Aggregate("none", <<>>)
    /\ uother = Aggregate("none", <<>>)
    /\ uprev = Aggregate("none", <<>>)
    /\ uop = "none"

\* StaticData(...) (static_data.py lines 12-18): every dict empty
\* (default_factory), or every dict with the items the caller passes.
NewStaticData(items) ==
    /\ agg' = Aggregate("StaticData", [m \in StaticMappings |-> items])
    /\ uop' = "new"
    /\ UNCHANGED <<uother, uprev>>
    /\ UNCHANGED <<workerVars, syncVars, storeVars, streamVars, frameVars, importVars,
                 appendVars, staticVars>>

\* DynamicData(...) (dynamic_data.py lines 9-12).
NewDynamicData(items) ==
    /\ agg' = Aggregate("DynamicData", [m \in DynamicMappings |-> items])
    /\ uop' = "new"
    /\ UNCHANGED <<uother, uprev>>
    /\ UNCHANGED <<workerVars, syncVars, storeVars, streamVars, frameVars, importVars,
                 appendVars, staticVars>>

\* StaticData.update (static_data.py lines 20-33).
StaticDataUpdate(other) ==
    /\ agg.kind = "StaticData"
    /\ agg' = [agg EXCEPT
                 !.maps.service_metadata = DictUpdate(@, other.maps.service_metadata),
                 !.maps.time_series_metadata = DictUpdate(@, other.maps.time_series_metadata),
                 !.maps.instance_metadata = DictUpdate(@, other.maps.instance_metadata),
                 !.maps.sensors = DictUpdate(@, other.maps.sensors),
                 !.maps.structural_models = DictUpdate(@, other.maps.structural_models)]
    /\ uother' = other
    /\ uprev' = agg
    /\ uop' = "update"
    /\ UNCHANGED <<workerVars, syncVars, storeVars, streamVars, frameVars, importVars,
                 appendVars, staticVars>>

\* DynamicData.update (dynamic_data.py lines 14-24).
DynamicDataUpdate(other) ==
    /\ agg.kind = "DynamicData"
    /\ agg' = [agg EXCEPT
                 !.maps.time_series_data = DictUpdate(@, other.maps.time_series_data),
                 !.maps.time_series_batch_metadata =
                     DictUpdate(@, other.maps.time_series_batch_metadata)]
    /\ uother' = other
    /\ uprev' = agg
    /\ uop' = "update"
    /\ UNCHANGED <<workerVars, syncVars, storeVars, streamVars, frameVars, importVars,
                 appendVars, staticVars>>

NewAggregate ==
    \E items \in {<<>>, <<<<1, 1>>, <<2, 1>>>>} : NewStaticData(items) \/ NewDynamicData(items)

UpdateCall ==
    \/ \E other \in Others("StaticData") : StaticDataUpdate(other)
    \/ \E other \in Others("DynamicData") : DynamicDataUpdate(other)

\* ------------------------------ two threads appending to one time-series file
\* The threads that call _save_time_series_data_to_file on one path: the
\* export worker and a caller.
Savers == {"worker", "caller"}

AppendInit ==
    /\ afile = NoFile
    /\ apc = [th \in Savers |-> "idle"]
    /\ adf = [th \in Savers |-> EmptySeries]
    /\ ahead = [th \in Savers |-> FALSE]
    /\ apend = [th \in Savers |-> <<>>]

\* _save_time_series_data_to_file is entered (lines 406-419):
\* path.parent.mkdir(exist_ok=True, parents=True) has run.
AppendBegin(th, df) ==
    /\ apc[th] = "idle"
    /\ apc' = [apc EXCEPT ![th] = "check"]
    /\ adf' = [adf EXCEPT ![th] = df]
    /\ UNCHANGED <<afile, ahead, apend>>
    /\ UNCHANGED <<workerVars, syncVars, storeVars, streamVars>>
    /\ UNCHANGED <<frameVars, importVars, updateVars, staticVars>>

\* header = not path.exists() (line 420).
AppendCheck(th) ==
    /\ apc[th] = "check"
    /\ ahead' = [ahead EXCEPT ![th] = WriteHeader(afile)]
    /\ apc' = [apc EXCEPT ![th] = "open"]
    /\ UNCHANGED <<afile, adf, apend>>
    /\ UNCHANGED <<workerVars, syncVars, storeVars, streamVars>>
    /\ UNCHANGED <<frameVars, importVars, updateVars, staticVars>>

\* df.to_csv(str(path), header=header, index=True, mode='a') (line 421) opens
\* the file for appending, which creates it, and formats the lines to write:
\* the header if asked for, then the rows.
AppendOpen(th) ==
    /\ apc[th] = "open"
    /\ afile' = File(afile.lines)
    /\ apend' = [apend EXCEPT ![th] =
                    (IF ahead[th] THEN <<SeriesHeader>> ELSE <<>>)
                    \o [i \in 1..Len(adf[th].rows) |-> SeriesLine(adf[th].rows[i])]]
    /\ apc' = [apc EXCEPT ![th] = "write"]
    /\ UNCHANGED <<adf, ahead>>
    /\ UNCHANGED <<workerVars, syncVars, storeVars, streamVars>>
    /\ UNCHANGED <<frameVars, importVars, updateVars, staticVars>>

\* to_csv writes through the handle (line 421): what a write of a handle
\* opened for appending adds goes to the end of the file; to_csv returns when
\* the last line is written and the handle closed.
AppendWrite(th) ==
    /\ apc[th] = "write"
    /\ IF apend[th] = <<>>
       THEN /\ apc' = [apc EXCEPT ![th] = "done"]
            /\ UNCHANGED <<afile, apend>>
       ELSE /\ afile' = File(Append(afile.lines, Head(apend[th])))
            /\ apend' = [apend EXCEPT ![th] = Tail(@)]
            /\ UNCHANGED apc
    /\ UNCHANGED <<adf, ahead>>
    /\ UNCHANGED <<workerVars, syncVars, storeVars, streamVars>>
    /\ UNCHANGED <<frameVars, importVars, updateVars, staticVars>>

AppendCall ==
    \E th \in Savers : \E df \in SeriesDataframes : AppendBegin(th, df)

\* -------------------------------------- DataManager.export_static_data
\* The calls of export_static_data (lines 498-502), in their order: the
\* entity groups of a StaticData.
ExportOrder ==
    <<"service_metadata", "structural_models", "sensors",
      "time_series_metadata", "instance_metadata">>

\* The tables one _export_<group> saves, in the order of its
\* _save_table_data calls (lines 532, 567-609, 677-714, 749-802, 838-853).
GroupTables(group) ==
    CASE group = "service_metadata" ->
            <<"000_service_metadata">>
      [] group = "structural_models" ->
            <<"040_structural_model_metadata", "041_structural_models">>
      [] group = "sensors" ->
            <<"030_sensor_metadata", "031_sensors",
              "033_sensor_structural_model_connections",
              "032_sensors_structural_models">>
      [] group = "time_series_metadata" ->
            <<"010_time_series_metadata",
              "012_time_series_structural_model_connections",
              "011_time_series_structural_models", "013_time_series_sensors">>
      [] group = "instance_metadata" ->
            <<"020_instance_metadata", "021_instance_inputs",
              "022_instance_outputs">>

\* What a group of the StaticData holds and how its saves end: no item; items
\* whose saves all return; items whose first save raises; items whose second
\* save raises.
GroupOutcomes(group) ==
    IF Len(GroupTables(group)) = 1
    THEN {"empty", "saved", "raises"}
    ELSE {"empty", "saved", "raises", "raises_later"}

StaticDatas ==
    {d \in [Range(ExportOrder) -> {"empty", "saved", "raises", "raises_later"}] :
        \A g \in Range(ExportOrder) : d[g] \in GroupOutcomes(g)}

\* The tables whose rows name rows of another table (the name columns of
\* lines 590-593, 623-626, 694-698 and 782-785).
References(table) ==
    CASE table = "032_sensors_structural_models" ->
            {"030_sensor_metadata", "040_structural_model_metadata"}
      [] table = "011_time_series_structural_models" ->
            {"010_time_series_metadata", "040_structural_model_metadata"}
      [] table = "013_time_series_sensors" ->
            {"010_time_series_metadata", "030_sensor_metadata"}
      [] table \in {"021_instance_inputs", "022_instance_outputs"} ->
            {"020_instance_metadata", "010_time_series_metadata"}
      [] OTHER -> {}

StaticInit ==
    /\ xcall = [g \in Range(ExportOrder) |-> "empty"]
    /\ xlog = <<>>
    /\ xret = "none"

\* (Variant: an exception of a save is caught in the group.)
ExportGroupCatching(group, outcome, log) ==
    IF outcome = "empty" THEN [log |-> log, out |-> "None"]
    ELSE IF outcome = "saved" THEN [log |-> log \o GroupTables(group), out |-> "None"]
    ELSE IF outcome = "raises" THEN [log |-> log, out |-> "None"]
    ELSE [log |-> Append(log, Head(GroupTables(group))), out |-> "None"]

\* One _export_<group> (lines 504-537, 539-647, 649-719, 721-807, 809-858): it
\* returns at once without items (lines 521, 556, 666, 738, 827), else saves
\* its tables one after the other; an exception of a save leaves it.
ExportGroup(group, outcome, log) ==
    IF outcome = "empty" THEN [log |-> log, out |-> "None"]
    ELSE IF outcome = "saved" THEN [log |-> log \o GroupTables(group), out |-> "None"]
    ELSE IF outcome = "raises" THEN [log |-> log, out |-> "raise"]
    ELSE [log |-> Append(log, Head(GroupTables(group))), out |-> "raise"]

\* export_static_data (lines 486-502) from its i-th call on: the tables
\* saved, in order, and how it ends.
RECURSIVE ExportFrom(_, _, _)
ExportFrom(i, static_data, log) ==
    IF i > Len(ExportOrder) THEN [log |-> log, out |-> "None"]
    ELSE LET g == ExportGroup(ExportOrder[i], static_data[ExportOrder[i]], log)
         IN  IF g.out = "raise" THEN g
             ELSE ExportFrom(i + 1, static_data, g.log)

ExportStaticData(static_data) ==
    LET r == ExportFrom(1, static_data, <<>>)
    IN  /\ xcall' = static_data
        /\ xlog' = r.log
        /\ xret' = r.out
        /\ UNCHANGED <<workerVars, syncVars, storeVars, streamVars>>
        /\ UNCHANGED <<frameVars, importVars, updateVars, appendVars>>

ExportStaticDataCall ==
    \E static_data \in StaticDatas : ExportStaticData(static_data)

Init ==
    /\ WorkerInit /\ SyncInit /\ StoreInit /\ StreamInit
    /\ FrameInit /\ ImportInit /\ UpdateInit
    /\ AppendInit /\ StaticInit

\* The export worker, its producers and its owner.
Next ==
    \/ Producer
    \/ RequestStop
    \/ Worker

Spec == Init /\ [][Next]_vars

\* A caller of _save_postgres_data(mode='sync') and the faults of the backend.
SyncNext ==
    \/ SyncBegin
    \/ SyncRepeat
    \/ SyncStep
    \/ SyncFault

SyncSpec == Init /\ [][SyncNext]_vars

\* The callers of the table entry points, one call after the other.
TableNext ==
    \/ InitRdb
    \/ SaveTableCall
    \/ LoadTableCall
    \/ ExportChildRecordsCall

TableSpec == Init /\ [][TableNext]_vars

\* The callers of the time-series entry points on the file backend.
SeriesNext ==
    \/ SaveTimeSeriesCall
    \/ LoadTimeSeriesCall

SeriesSpec == Init /\ [][SeriesNext]_vars

\* The four entry points on every backend.
EntryNext ==
    \/ InitRdb
    \/ TableSaveEntry
    \/ TableLoadEntry
    \/ SeriesSaveEntry
    \/ SeriesLoadEntry

EntrySpec == Init /\ [][EntryNext]_vars

\* A thread that saves snapshots of the stream and a thread that loads it.
StreamNext ==
    \/ SavingThread
    \/ LoadingThread

StreamSpec == Init /\ [][StreamNext]_vars

\* The callers of the table entry points on the file backend.
FrameNext ==
    \/ SaveFrameCall
    \/ LoadFrameCall

FrameSpec == Init /\ [][FrameNext]_vars

\* The callers of the time-series import and export of DataManager on the
\* file backend, and the removal of the datadrive.
ImportNext ==
    \/ ExportTimeSeriesCall
    \/ ImportTimeSeriesCall
    \/ RemoveStore

ImportSpec == Init /\ [][ImportNext]_vars

\* The construction of an aggregate and its updates.
UpdateNext ==
    \/ NewAggregate
    \/ UpdateCall

UpdateSpec == Init /\ [][UpdateNext]_vars

\* Two threads, each saving one time series to the same file.
AppendNext ==
    \/ AppendCall
    \/ \E th \in Savers : AppendCheck(th)
    \/ \E th \in Savers : AppendOpen(th)
    \/ \E th \in Savers : AppendWrite(th)

AppendSpec == Init /\ [][AppendNext]_vars

\* The callers of export_static_data, one call after the other.
StaticNext ==
    \/ ExportStaticDataCall

StaticSpec == Init /\ [][StaticNext]_vars

\* The thread scheduler runs the worker thread while it has a step to take,
\* and every export call ends.
FairSpec == Spec /\ WF_vars(Worker)

\* ===================================================================
\* Properties of the export worker
\* ===================================================================

\* C1 (worker drain): when every item was put before the stop flag was raised,
\* the thread has ended only after passing every item put to the export
\* operation, exactly once each and in put order.
C1_DrainForwardsAll ==
    (~Alive /\ exit /\ afterStop = {}) => forwarded = enqueued

\* The same drain property, restricted to runs in which no export call raised.
DrainWhenNoExportRaises ==
    (~Alive /\ exit /\ afterStop = {} /\ failed = {}) => forwarded = enqueued

\* C2 (one failing export does not stop the drain loop): a step in which an
\* export call raises leaves the worker thread running.
C2_FailureKeepsWorkerRunning ==
    [][failed' # failed => Alive']_vars

\* C3 (stop condition): the thread ends only in the step of the check that
\* finds the stop flag set and observes the queue empty.
C3_TerminatesOnlyAtStopCheck ==
    [][(Alive /\ ~Alive') => (pc = "check_empty" /\ exit /\ queue = <<>>)]_vars

\* The same stop condition, for every way run() returns (as opposed to raises).
ReturnsOnlyAtStopCheck ==
    [][(pc # "done" /\ pc' = "done") =>
            (pc = "check_empty" /\ exit /\ queue = <<>>)]_vars

\* C4 (graceful drain): an item put after the stop flag was raised, while the
\* thread had not yet ended, has been passed to the export operation by the
\* time the thread has ended.
C4_LateItemForwarded ==
    ~Alive => late \subseteq Range(forwarded)

\* The same graceful drain, restricted to runs in which no export call raised.
LateItemForwardedWhenNoExportRaises ==
    (~Alive /\ failed = {}) => late \subseteq Range(forwarded)

\* C5 (one export at a time, FIFO): at most one export call is running; an
\* item that has been dequeued and not yet forwarded finds no export running;
\* every export call but the last one made has ended, in call order; and the
\* items are forwarded in the order they were put, whichever producer put them.
C5_OneExportAtATimeFifo ==
    /\ Cardinality(active) <= 1
    /\ (pc = "export" => active = {})
    /\ IsPrefix(completed, forwarded)
    /\ Len(forwarded) <= Len(completed) + 1
    /\ (active = {} => completed = forwarded)
    /\ IsPrefix(forwarded, enqueued)

\* C5 witness: the stop flag was raised while an export was running, that
\* export ended and a later item of another producer was forwarded after it.
C5_Witness ==
    /\ \E i \in 1..Len(completed) :
        /\ completed[i] \in stopDuring
        /\ \E j \in 1..Len(forwarded) : j > i /\ forwarded[j][1] # completed[i][1]
    /\ C5_OneExportAtATimeFifo

\* C6 (termination, bounded poll): once the stop flag is raised the thread
\* eventually ends, and a thread waiting in queue.get eventually leaves the
\* wait (with an item, or by the poll timing out).
C6_EventuallyStops ==
    /\ exit ~> ~Alive
    /\ (pc = "get") ~> (pc # "get")

\* C6 witness: the thread has returned from run() after a poll of the empty
\* queue timed out and after the stop flag was raised.
C6_Witness ==
    pc = "done" /\ exit /\ idled /\ Len(completed) >= 1

\* ===================================================================
\* Properties of the staging-table sync
\* ===================================================================
RowsFor(tbl, ks) == {t \in tbl : t.k \in ks}

\* The table a completed upsert of df into tbl has to produce: the rows of
\* tbl with a key df does not name, and for each row of df one row with its
\* key, holding df's value in each column of df and, in a column df lacks,
\* the value the table held (NULL for a new key).
MergedRow(tbl, r, cols) ==
    LET old == RowsFor(tbl, {r.k})
        keep(c) == IF old = {} THEN Null ELSE (CHOOSE t \in old : TRUE)[c]
    IN [k |-> r.k,
        a |-> IF "a" \in cols THEN r.a ELSE keep("a"),
        b |-> IF "b" \in cols THEN r.b ELSE keep("b")]

AllRowsApplied(tbl, df) ==
    (tbl \ RowsFor(tbl, DfKeys(df)))
        \cup {MergedRow(tbl, df.rows[i], df.cols) : i \in 1..Len(df.rows)}

\* The upsert statement of the running (or last) invocation has been executed.
Upserted ==
    \/ spc = "drop"
    \/ spc = "idle" /\ (lastRes[1] = "ok" \/ lastRes = <<"fault", "drop">>)

\* The last two invocations got the identical dataframe and both have ended.
CalledTwice == spc = "idle" /\ (nsync + nrep >= 2) /\ prevDf = sdf

\* C7 (sync idempotence): of two invocations in a row with the identical
\* dataframe, neither hit by a backend fault, both succeed, and after the
\* second the target holds for every key of the dataframe the rows it held
\* after the first.
C7_SyncTwiceSucceedsSameRows ==
    (CalledTwice /\ prevRes[1] # "fault" /\ lastRes[1] # "fault") =>
        /\ prevRes[1] = "ok"
        /\ lastRes[1] = "ok"
        /\ RowsFor(target, DfKeys(sdf)) = RowsFor(prevAfter, DfKeys(sdf))

\* The part of C7 that holds: after a first invocation that succeeded, the
\* second succeeds unless a backend fault hits it, and whatever the two
\* results, the rows for the dataframe's keys are those left by the first.
SecondSyncAfterSuccessfulFirst ==
    /\ (CalledTwice /\ prevRes[1] = "ok" /\ lastRes[1] # "fault") => lastRes[1] = "ok"
    /\ (CalledTwice /\ prevRes[1] = "ok") =>
            RowsFor(target, DfKeys(sdf)) = RowsFor(prevAfter, DfKeys(sdf))

\* C8 (upsert correctness): once the upsert of an invocation has run, the
\* target holds exactly one row for each key of the dataframe, with the
\* dataframe's value in every non-key column of the dataframe (whether the key
\* was in the target before or not), and the rows with other keys are those
\* the target held when the invocation began.
C8_UpsertCorrect ==
    Upserted =>
        /\ \A i \in 1..Len(sdf.rows) :
            LET r == sdf.rows[i]
                hit == RowsFor(target, {r.k})
            IN /\ Cardinality(hit) = 1
               /\ \A t \in hit : \A c \in sdf.cols : t[c] = r[c]
        /\ target \ RowsFor(target, DfKeys(sdf)) = before \ RowsFor(before, DfKeys(sdf))

\* C8 witness: a completed sync overwrote both non-key columns of an existing
\* row with new values and left a row with another key in the target.
C8_Witness ==
    /\ spc = "idle" /\ lastRes[1] = "ok" /\ sdf.cols = {"a", "b"}
    /\ \E t \in before : \E i \in 1..Len(sdf.rows) :
        /\ t.k = sdf.rows[i].k
        /\ t.a \in Vals /\ t.a # sdf.rows[i].a
        /\ t.b # Null /\ t.b # sdf.rows[i].b
    /\ \E t \in before : t.k \notin DfKeys(sdf) /\ t \in target

\* Columns the dataframe lacks are not written by the upsert.
UnlistedColumnsKept ==
    Upserted => target = AllRowsApplied(before, sdf)

\* C9 (no partial update): up to and including a failed upsert the target is
\* as it was when the invocation began; from the upsert on, also when the drop
\* fails, it holds all rows of the dataframe.  No other step changes it.
C9_FailedSyncAllOrNothing ==
    /\ spc \in {"create", "insert", "upsert"} => target = before
    /\ (spc = "idle" /\ lastRes[1] \in {"fault", "duplicate_table"}
            /\ lastRes[2] \in {"create", "insert", "upsert"}) => target = before
    /\ (spc = "drop" \/ (spc = "idle" /\ lastRes \in {<<"fault", "drop">>, <<"ok", "none">>})) =>
            target = AllRowsApplied(before, sdf)

\* C9 witness: the upsert of a two-row dataframe that would have changed both
\* an existing row and added another failed.
C9_Witness ==
    /\ spc = "idle" /\ lastRes = <<"fault", "upsert">>
    /\ Len(sdf.rows) = 2
    /\ before # {}
    /\ RowsFor(before, {sdf.rows[1].k}) # {MergedRow(before, sdf.rows[1], sdf.cols)}
    /\ target = before

\* C10 (orphaned staging tables are inert): an invocation that no backend
\* fault hits succeeds and leaves the target with all rows of its dataframe
\* applied, whatever staging tables earlier invocations left behind.
C10_OrphanStagingInert ==
    (spc = "idle" /\ lastRes[1] \notin {"none", "fault"}) =>
        /\ lastRes[1] = "ok"
        /\ target = AllRowsApplied(before, sdf)

\* The part of C10 that holds: only the staging table of the identical
\* dataframe makes a later invocation fail, and a failed one changes nothing.
OnlyOwnOrphanBlocks ==
    (spc = "idle" /\ lastRes[1] = "duplicate_table") =>
        /\ StagingName(sdf) \in DOMAIN staging
        /\ target = before

\* ------------------------------------------------------------- C11 .. C16
\* The modes the claim lists as supported: 'sync' and 'append' on the
\* relational backend, 'replace' on the file backend.
ModeSupported(data_system, mode) ==
    \/ data_system = "postgres" /\ mode \in {"sync", "append"}
    \/ data_system = "file" /\ mode = "replace"

\* C11 (an invalid save mode is rejected): a table save of a dataframe with
\* rows on the relational or the file backend with a mode that backend does
\* not support ends with an error and leaves every store as it was.
C11_InvalidModeRejected ==
    [][(call'.op = "save_table" /\ call'.ds \in TableSystems
            /\ Len(call'.df.rows) > 0
            /\ ~ModeSupported(call'.ds, call'.mode))
        => (out' # "ok" /\ store' = store)]_vars

\* C12 (an unsupported backend name is rejected before any I/O): a table
\* or time-series load or save called with a backend name outside the set
\* of its operation raises an error and leaves every store as it was.
C12_UnsupportedBackendRejected ==
    [][((call'.op \in {"save_table", "load_table"} /\ call'.ds \notin {"postgres", "file"})
        \/ (call'.op \in {"save_series", "load_series"}
                /\ call'.ds \notin {"influx", "file", "streaming"}))
        => (out' \notin {"ok", "none"} /\ res' = NoResult /\ store' = store)]_vars

\* C12 witness: a save of a dataframe with rows to a backend name the table
\* operations do not know was refused while the table file existed.
C12_Witness ==
    /\ call.op = "save_table" /\ call.ds = "streaming"
    /\ Len(call.df.rows) > 0
    /\ out = "ValueError"
    /\ store.csv.exists

\* The rows a load of the table returns from the stores s.
LoadedRows(s, data_system) ==
    LET r == LoadTableData(s, data_system, "none")
    IN IF r.res.kind = "table" THEN r.res.rows ELSE {}

\* C13 (append keeps the stored rows on every backend): after a table save
\* in append mode that returns, every row a load returned before the save is
\* still returned by a load, on the relational and on the file backend.
C13_AppendKeepsStoredRows ==
    [][(call'.op = "save_table" /\ call'.ds \in TableSystems
            /\ call'.mode = "append" /\ out' = "ok")
        => LoadedRows(store, call'.ds) \subseteq LoadedRows(store', call'.ds)]_vars

\* The records of an export, as the rows of its dataframe, and the calls of
\* _save_table_data that carry a given row.
CarriedBy(sent, row) == {j \in 1..Len(sent) : row \in Range(sent[j].df.rows)}

C15_AbsentOnlyWhenMissing ==
    (call.op = "load_table" /\ call.ds \in TableSystems) =>
        /\ call.fault = "none" =>
            ((out = "ok" /\ res.kind = "none") <=>
                ~(IF call.ds = "postgres" THEN store.pg.exists ELSE store.csv.exists))
        /\ call.fault # "none" => (out # "ok" /\ res.kind # "none")

\* C16 (an empty or absent dataset writes nothing): a table or time-series
\* save on a supported backend with None or with a dataframe without rows
\* leaves every store, file, directory and table as it was.
C16_EmptySaveWritesNothing ==
    [][(/\ \/ call'.op = "save_table" /\ call'.ds \in {"postgres", "file"}
           \/ call'.op = "save_series" /\ call'.ds \in {"influx", "file", "streaming"}
        /\ Len(call'.df.rows) = 0)
        => (store' = store /\ out' = "ok")]_vars

\* C16 witness: a save of a dataframe without rows to the time-series file
\* returned, and neither the file nor its directory exists, while saves with
\* rows have made the table file.
C16_Witness ==
    /\ call.op = "save_series" /\ call.ds = "file"
    /\ call.df = EmptySeries
    /\ out = "ok"
    /\ ~store.tsf.exists /\ "init_tsdb" \notin store.dirs
    /\ store.csv.exists

\* ------------------------------------------------------------- C17, C18
\* The rows of a loaded series whose timestamp lies in [first, last), in
\* their order: the filter applied after a read.
FilterAfterRead(rows, first_datetime, last_datetime) ==
    SelectSeq(rows, LAMBDA r :
        /\ first_datetime = NoBound \/ first_datetime <= r.t
        /\ last_datetime = NoBound \/ r.t < last_datetime)

\* C17 (time-range filtering): a load of the time-series file with bounds
\* [first, last) ends as the load without bounds ends, and returns exactly
\* the rows of that load whose timestamp t satisfies first <= t < last, in
\* the same order, for one bound, for both, and when no row qualifies.
C17_RangeLoadIsFilteredFullLoad ==
    (call.op = "load_series" /\ call.ds = "file") =>
        LET full == LoadTimeSeriesData(store, "file", NoBound, NoBound)
        IN  /\ out = full.out
            /\ res.kind = full.res.kind
            /\ res.kind = "series" =>
                res.rows = FilterAfterRead(full.res.rows, call.first, call.last)

\* C17 witness: a load with both bounds of a file of three rows out of time
\* order returned one row and skipped rows before and after it.
C17_Witness ==
    /\ call.op = "load_series" /\ call.ds = "file" /\ out = "ok"
    /\ call.first # NoBound /\ call.last # NoBound
    /\ Len(written) = 3
    /\ written[1].t > written[3].t
    /\ res.kind = "series" /\ Len(res.rows) = 1
    /\ \E i, j \in 1..Len(written) : written[i].t < call.first /\ call.last <= written[j].t

\* C17 witness of the empty case: no row of a file with rows qualifies.
NoRowQualifies ==
    /\ call.op = "load_series" /\ call.ds = "file" /\ out = "ok"
    /\ call.first # NoBound /\ call.last # NoBound
    /\ Len(written) = 3
    /\ res.kind = "series" /\ res.rows = <<>>

\* C18 (one header, rows in call order): after saves of dataframes with rows
\* to the time-series file, which did not exist at first, the file holds one
\* header line, then the rows of all the dataframes in call order, and a
\* load without bounds returns those rows in that order.
C18_OneHeaderRowsInOrder ==
    /\ store.tsf.exists <=> written # <<>>
    /\ store.tsf.exists =>
        store.tsf.lines = <<SeriesHeader>> \o [i \in 1..Len(written) |-> SeriesLine(written[i])]
    /\ (call.op = "load_series" /\ call.ds = "file" /\ written # <<>>
            /\ call.first = NoBound /\ call.last = NoBound) =>
        (out = "ok" /\ res = Result("series", written))

\* C18 witness: three saves of rows built the file, and a load without
\* bounds returned their three rows.
C18_Witness ==
    /\ call.op = "load_series" /\ call.ds = "file" /\ out = "ok"
    /\ call.first = NoBound /\ call.last = NoBound
    /\ Len(written) = 3 /\ written[1] = written[2] /\ written[2] = written[3]
    /\ res.rows = written
    /\ Len(store.tsf.lines) = 4

\* ------------------------------------------------------------- C19, C20
\* C19 (a load tolerates a save in progress): a load of the stream that
\* runs while a save of it runs does not fail and does not return anything
\* but a snapshot some save has written, whole.
C19_LoadReturnsWholeSnapshot ==
    /\ rout # "Exception"
    /\ rres.kind \in {"nothing", "none", "series"}
    /\ rres.kind = "series" => rres.df \in begun

\* The part of C19 that holds: a file that ends before the pickle does
\* (emptied, or written in part) is never returned; the load opens it again.
TruncatedSnapshotRetried ==
    [][(rpc = "read" /\ rpc' # rpc /\ Len(rbuf) >= Len(store.pkl.lines))
        => (rpc' = "open" /\ rres' = rres /\ rout' = rout)]_vars

\* The load returns in this step.
LoadReturns ==
    \/ rpc = "unpickle" /\ rpc' = "idle"
    \/ nload' # nload /\ rpc' = "idle"

\* C20 (a load returns the latest snapshot, whatever the bounds): a load of
\* the stream that runs while no save runs returns the dataframe of the last
\* save that returned, index converted, and nothing of the saves before it;
\* it returns None when there was none; the bounds passed make no difference.
C20_LoadReturnsLatestSnapshot ==
    [][(LoadReturns /\ quiet') =>
        /\ rout' = "ok"
        /\ rres' = IF lastSaved = NoDf THEN Loaded("none", NoDf)
                   ELSE Loaded("series", lastSaved)]_vars

\* C20 witness: after two saves of different snapshots, the first with an
\* index of integers, a load with bounds that exclude every row returned the
\* second snapshot with its rows.
C20_Witness ==
    /\ rpc = "idle" /\ nload > 0 /\ quiet /\ rout = "ok"
    /\ nsave = 2 /\ wpc = "idle"
    /\ Cardinality(begun) = 2
    /\ rres = Loaded("series", lastSaved)
    /\ rargs = <<4, 4>>
    /\ Len(rres.df.rows) = 2

\* ===================================================================
\* Properties of the table files and the schema declarations
\* ===================================================================

\* The columns of d a save to the table keeps: all, or the declared ones.
KeptColumns(table_name, d) ==
    IF table_name \in DOMAIN Declaration
    THEN Range(d.columns) \cap Declaration[table_name] ELSE Range(d.columns)

\* The rows of d as (key, values) pairs over the columns `cols`.
KeyedRows(d, cols) ==
    {[c \in cols \cup {d.index} |-> d.rows[i][c]] : i \in 1..Len(d.rows)}

\* C21 (table round trip): a load from the path a non-empty dataset d with
\* unique keys was saved to returns a dataset with d's key column as index,
\* d's columns and d's (key, values) rows, up to the columns the coercion
\* drops.
C21_TableRoundTrip ==
    LET d == tsaved[tcall.table]
        cols == KeptColumns(tcall.table, d)
    IN  (tcall.op = "load" /\ Len(d.rows) > 0) =>
            /\ tout = "frame"
            /\ tret.index = d.index
            /\ Range(tret.columns) = cols
            /\ KeyedRows(tret, cols) = KeyedRows(d, cols)

\* The round trip holds for the tables without a declaration and for the
\* datasets with every declared column.
RoundTripWhenNoDeclaredColumnMissing ==
    LET d == tsaved[tcall.table]
        cols == KeptColumns(tcall.table, d)
        complete == \/ tcall.table \notin DOMAIN Declaration
                    \/ Declaration[tcall.table] \subseteq Range(d.columns) \cup {d.index}
    IN  (tcall.op = "load" /\ Len(d.rows) > 0 /\ complete) =>
            /\ tout = "frame"
            /\ tret.index = d.index
            /\ Range(tret.columns) = cols
            /\ KeyedRows(tret, cols) = KeyedRows(d, cols)

\* C25 (schema coercion): a save or load of a declared table that returns a
\* dataset returns none with a column outside the declaration; a save or
\* load of a table without a declaration does not raise and passes every
\* column of the dataset on.
C25_CoercionKeepsDeclaredColumns ==
    LET declared == tcall.table \in DOMAIN Declaration
        columns == Range(tret.columns) \cup ({tret.index} \ {NoName})
    IN  /\ (tcall.op \in {"save", "load"} /\ declared /\ tout \in {"ok", "frame"}) =>
                columns \subseteq Declaration[tcall.table]
        /\ (tcall.op = "save" /\ ~declared) =>
                /\ tout = "ok"
                /\ Len(tcall.df.rows) > 0 => tret = ResetIndex(tcall.df)
        /\ (tcall.op = "load" /\ ~declared) =>
                /\ tout \in {"frame", "None"}
                /\ tout = "frame" => ResetIndex(tret) = ReadCsv(tfile[tcall.table])

\* A dataset with an undeclared column was saved to the declared table, and
\* one was loaded from a file of the other table that holds that column.
C25_Witness ==
    /\ tcall.op = "load"
    /\ tcall.table = "rosette"
    /\ tout = "frame"
    /\ "x" \in Range(tret.columns)
    /\ tfile["sensor"].exists
    /\ "x" \in Range(tsaved["sensor"].columns)
    /\ "x" \notin Range(tfile["sensor"].header)

\* ===================================================================
\* Properties of the time-series import and export
\* ===================================================================

\* The index of a dataframe, in row order.
IndexOf(df) == [i \in 1..Len(df.rows) |-> df.rows[i][df.index]]

\* C22 (shared index): the fields and the tags of an imported dataset have
\* the same index values in the same order, whatever bounds were passed.
C22_TagsAndFieldsShareIndex ==
    iout = "data" => IndexOf(iret.fields) = IndexOf(iret.tags)

\* An import with a lower bound returned some rows of the file and not all,
\* one of them without a value in any tag column.
C22_Witness ==
    /\ icall.op = "import"
    /\ icall.first # NoBound
    /\ iout = "data"
    /\ Len(iret.fields.rows) > 0
    /\ Len(iret.fields.rows) < Len(ifile.lines) - 1
    /\ Len(iret.tags.columns) > 0
    /\ \E i \in 1..Len(iret.tags.rows) :
          \A c \in Range(iret.tags.columns) : iret.tags.rows[i][c] = Null

\* C23 (tag placement): of the columns of an imported dataset, those whose
\* name is one of the three tag keys are in tags and all others in fields.
C23_TagsAreExactlyTheTagKeys ==
    iout = "data" =>
        /\ \A c \in Range(iret.tags.columns) : c.text \in TAG_KEYS
        /\ \A c \in Range(iret.fields.columns) : c.text \notin TAG_KEYS

\* Every column read is in one part and one only, the tags being the
\* columns whose name begins with a tag key.
SplitByLeadingTagKey ==
    iout = "data" =>
        /\ Range(iret.tags.columns) \cap Range(iret.fields.columns) = {}
        /\ Len(iret.tags.columns) + Len(iret.fields.columns) = Len(ifile.lines[1].cells) - 1
        /\ \A c \in Range(iret.tags.columns) : MatchesTagKeys(c, TAG_KEYS)
        /\ \A c \in Range(iret.fields.columns) : ~MatchesTagKeys(c, TAG_KEYS)

\* C24 (tag/field round trip): an import without bounds that follows the
\* export of one dataset with rows to the empty store returns the fields and
\* the tags exported.
C24_ExportImportRoundTrip ==
    (/\ icall.op = "import"
     /\ icall.first = NoBound /\ icall.last = NoBound
     /\ isaved.exports = 1
     /\ Len(isaved.first.fields.rows) > 0) =>
        /\ iout = "data"
        /\ iret = isaved.first

\* The round trip holds for the datasets whose field columns are labelled
\* with the str of a number.
RoundTripOfStrNumberedFields ==
    (/\ icall.op = "import"
     /\ icall.first = NoBound /\ icall.last = NoBound
     /\ isaved.exports = 1
     /\ Len(isaved.first.fields.rows) > 0
     /\ \A c \in Range(isaved.first.fields.columns) :
           c.type = "str" /\ IsNumeral(c)) =>
        /\ iout = "data"
        /\ iret = isaved.first

\* ===================================================================
\* Properties of the aggregates
\* ===================================================================

\* C26 (update is a merge by key, right-hand side wins): after a.update(b)
\* every dict of a has the keys of both, b's value for each key of b and
\* its previous value for every other key; an empty b changes nothing, an
\* empty a becomes equal to b, and the same update once more changes nothing.
C26_UpdateMergesRightWins ==
    uop = "update" =>
        /\ \A m \in DOMAIN agg.maps :
              /\ DictKeys(agg.maps[m]) = DictKeys(uprev.maps[m]) \cup DictKeys(uother.maps[m])
              /\ Len(agg.maps[m]) = Cardinality(DictKeys(agg.maps[m]))
              /\ \A key \in DictKeys(agg.maps[m]) :
                    DictGet(agg.maps[m], key) =
                        IF key \in DictKeys(uother.maps[m])
                        THEN DictGet(uother.maps[m], key)
                        ELSE DictGet(uprev.maps[m], key)
              /\ DictUpdate(agg.maps[m], uother.maps[m]) = agg.maps[m]
        /\ (\A m \in DOMAIN agg.maps : uother.maps[m] = <<>>) => agg = uprev
        /\ (\A m \in DOMAIN agg.maps : uprev.maps[m] = <<>>) => agg = uother

\* An update replaced the value of a key both aggregates have and kept a
\* key only the updated aggregate has.
C26_Witness ==
    /\ uop = "update"
    /\ \E m \in DOMAIN agg.maps :
          /\ 1 \in DictKeys(uprev.maps[m]) \cap DictKeys(uother.maps[m])
          /\ DictGet(uprev.maps[m], 1) # DictGet(uother.maps[m], 1)
          /\ 2 \in DictKeys(uprev.maps[m]) \ DictKeys(uother.maps[m])
          /\ DictGet(agg.maps[m], 1) = DictGet(uother.maps[m], 1)
          /\ DictGet(agg.maps[m], 2) = DictGet(uprev.maps[m], 2)

\* ===================================================================
\* Properties of the steps of a sync invocation
\* ===================================================================

\* C27 (order of the sync steps): an invocation creates its staging table,
\* then inserts into it, then upserts once from it into the target, then
\* drops it, each step following the one before or the exception that ends
\* the invocation; only the upsert writes the target; and when the
\* invocation returns, its staging table is gone.
C27_SyncStepsInOrder ==
    [][/\ spc' # spc =>
            \/ spc = "idle" /\ spc' = "create"
            \/ spc = "create" /\ spc' = "insert"
                /\ StagingName(sdf) \notin DOMAIN staging
                /\ staging' = CreateTable(staging, StagingName(sdf))
            \/ spc = "insert" /\ spc' = "upsert"
                /\ staging'[StagingName(sdf)] = sdf.rows
            \/ spc = "upsert" /\ spc' = "drop" /\ staging' = staging
            \/ spc = "drop" /\ spc' = "idle" /\ lastRes'[1] = "ok"
            \/ spc # "idle" /\ spc' = "idle" /\ lastRes'[1] \notin {"ok", "running"}
                /\ staging' = staging
       /\ target' # target => spc = "upsert" /\ spc' = "drop"
       /\ (lastRes'[1] = "ok" /\ spc # "idle" /\ spc' = "idle") =>
            /\ spc = "drop"
            /\ StagingName(sdf) \notin DOMAIN staging'
      ]_vars

\* An invocation has returned after its upsert changed the target, and no
\* staging table of its name is left.
C27_Witness ==
    /\ spc = "idle"
    /\ lastRes = <<"ok", "none">>
    /\ target # before
    /\ StagingName(sdf) \notin DOMAIN staging

\* ===================================================================
\* Conservation of the items of the export queue
\* ===================================================================

\* The item queue.get has returned and export_dynamic_data has not yet been
\* called with.
InFlight == IF pc = "export" THEN {inflight} ELSE {}

\* Every item put is in one place, and there once.
EachItemInOnePlace ==
    /\ Range(enqueued) = Range(queue) \cup InFlight \cup Range(forwarded)
    /\ Range(queue) \cap InFlight = {}
    /\ Range(queue) \cap Range(forwarded) = {}
    /\ InFlight \cap Range(forwarded) = {}
    /\ Len(enqueued) = Len(queue) + Cardinality(InFlight) + Len(forwarded)

\* C29 (item conservation): before and after every step, every item ever
\* put is in the queue, in flight in the worker or forwarded to the export,
\* in one of the three only and once only; and once the worker thread has
\* ended, nothing is forwarded any more and the queue only grows.
C29_ItemsConserved ==
    [][/\ EachItemInOnePlace
       /\ EachItemInOnePlace'
       /\ ~Alive => /\ forwarded' = forwarded
                     /\ IsPrefix(queue, queue')
                     /\ ~Alive']_vars

\* The thread has returned after forwarding an item, and an item put since
\* waits in the queue.
C29_Witness ==
    /\ pc = "done"
    /\ forwarded # <<>>
    /\ \E item \in Range(queue) : item \in afterStop

\* ------------------------------------------------------------- C28, C30
HeaderLines(lines) == {i \in 1..Len(lines) : lines[i].kind = "header"}

RowLines(lines) == {i \in 1..Len(lines) : lines[i].kind = "row"}

\* The lines of a file hold each row of a dataframe as often as the
\* dataframes of the two threads hold it, and no other row.
HoldsRowsOfBoth(lines) ==
    LET rowsOf(th) == [i \in 1..Len(adf[th].rows) |-> SeriesLine(adf[th].rows[i])]
        both == rowsOf("worker") \o rowsOf("caller")
    IN  /\ Cardinality(RowLines(lines)) = Len(both)
        /\ \A i \in 1..Len(both) :
              Cardinality({k \in RowLines(lines) : lines[k] = both[i]})
                  = Cardinality({k \in 1..Len(both) : both[k] = both[i]})

\* C28: when two threads have saved time series to the same path of the file
\* backend, starting without the file, the file holds exactly one header row
\* and the rows of both datasets.
C28_OneHeaderForTwoSavers ==
    (\A th \in Savers : apc[th] = "done") =>
        /\ Cardinality(HeaderLines(afile.lines)) = 1
        /\ HoldsRowsOfBoth(afile.lines)

TablePosition(table) ==
    LET all == GroupTables(ExportOrder[1]) \o GroupTables(ExportOrder[2])
               \o GroupTables(ExportOrder[3]) \o GroupTables(ExportOrder[4])
               \o GroupTables(ExportOrder[5])
    IN  CHOOSE i \in 1..Len(all) : all[i] = table

GroupOfTable(table) ==
    CHOOSE i \in 1..Len(ExportOrder) : table \in Range(GroupTables(ExportOrder[i]))

\* C30: export_static_data saves the groups in the order service metadata,
\* structural models, sensors, time-series metadata, instance metadata: the
\* tables saved follow that order, a table is saved after the tables of the
\* call its rows refer to, a call whose saves all return saves every group
\* that has items, and when a save of a group raises, no table of a later
\* group is saved.
C30_FixedOrderStopsAtRaise ==
    xret # "none" =>
        /\ \A i, j \in 1..Len(xlog) :
              i < j => TablePosition(xlog[i]) < TablePosition(xlog[j])
        /\ \A i \in 1..Len(xlog) : \A r \in References(xlog[i]) :
              xcall[ExportOrder[GroupOfTable(r)]] # "empty"
                  => \E j \in 1..(i - 1) : xlog[j] = r
        /\ xret = "None" =>
              \A g \in Range(ExportOrder) :
                  xcall[g] # "empty" => Range(GroupTables(g)) \subseteq Range(xlog)
        /\ \A k \in 1..Len(ExportOrder) :
              xcall[ExportOrder[k]] \in {"raises", "raises_later"} =>
                  /\ xret = "raise"
                  /\ \A i \in 1..Len(xlog) : GroupOfTable(xlog[i]) <= k

\* The save of the sensors raised after the structural models were saved,
\* and the StaticData holds time-series metadata.
C30_Witness ==
    /\ xret = "raise"
    /\ xcall["structural_models"] = "saved"
    /\ xcall["sensors"] = "raises_later"
    /\ xcall["time_series_metadata"] = "saved"
    /\ "030_sensor_metadata" \in Range(xlog)

====
